---- MODULE Spec2Model ----
(***************************************************************************)
(* Model of the IR-to-Playwright compiler of QAsmith                       *)
(* (backend/compiler/compiler.py and backend/compiler/templates.py) and    *)
(* of the artifact store it shares with the API compiler                   *)
(* (backend/compiler/api_compiler.py, backend/compiler/api_templates.py).  *)
(*                                                                         *)
(* Strings.  A Python str is a sequence of tokens.  A token is one         *)
(* character ("a", "'", "\\", "#", ...) or a fixed run of characters that  *)
(* holds no quote and no backslash, written as one token ("title",         *)
(* "[data-testid", "page.locator(", ...).  The quote characters and the    *)
(* backslash are always tokens of their own, so that escaping and the      *)
(* lexing of the generated TypeScript work character by character where    *)
(* it matters.                                                             *)
(*                                                                         *)
(* Optional values.  None is the empty tuple and a present value v is the  *)
(* one-element tuple <<v>>.                                                *)
(*                                                                         *)
(* Exceptions.  An operation that can raise returns [ok, val]; ok = FALSE  *)
(* is a raised exception, which propagates through every later operation.  *)
(***************************************************************************)
EXTENDS Integers, Sequences, FiniteSets, TLC

\* one call of _compile_step or of _generate_selector
VARIABLES pc, step, step_number, result

\* the artifact store: the loaded configuration, the file system under the
\* storage path, the compile calls still to be made, the log of what was
\* done, and the calls in flight when calls run concurrently
VARIABLES config, fs, queue, done, calls

stepVars == <<pc, step, step_number, result>>
storeVars == <<config, fs, queue, done, calls>>

vars == <<pc, step, step_number, result, config, fs, queue, done, calls>>

-----------------------------------------------------------------------------
(* Bounds of the explored inputs *)

\* longest run of free characters in a generated selector
MaxSelLen == 1
\* longest generated value
MaxValLen == 1
\* longest selector and value over quotes and backslashes
MaxQuoteLen == 2
\* longest selector proper handed to _generate_selector
MaxMidLen == 2
\* largest step number handed to _compile_step
MaxStepNumber == 2
\* most steps of a compiled test case
MaxSteps == 3
\* most test cases of a compiled suite
MaxCases == 2
\* most compile calls made one after the other
MaxCalls == 3
\* compile calls that run at the same time
MaxRacers == 2

-----------------------------------------------------------------------------
(* Python values *)

None == <<>>
Some(v) == <<v>>

\* truthiness of an Optional[str]: None and "" are falsy
Truthy(o) == o # None /\ o[1] # <<>>

\* `o or d` for an Optional[str] o and a str d
OrElse(o, d) == IF Truthy(o) THEN o[1] ELSE d

Ok(v) == [ok |-> TRUE, val |-> v]
Raise == [ok |-> FALSE, val |-> <<>>]

\* sequencing of two operations that may raise
Bind(r, F(_)) == IF r.ok THEN F(r.val) ELSE Raise

StartsWith(s, tok) == s # <<>> /\ s[1] = tok

EndsWith(s, suffix) ==
    /\ Len(s) >= Len(suffix)
    /\ SubSeq(s, Len(s) - Len(suffix) + 1, Len(s)) = suffix

Contains(s, tok) == \E i \in 1..Len(s) : s[i] = tok

\* str.replace("'", "\\'")
RECURSIVE replace_quote(_)
replace_quote(s) ==
    IF s = <<>> THEN <<>>
    ELSE (IF Head(s) = "'" THEN <<"\\", "'">> ELSE <<Head(s)>>) \o replace_quote(Tail(s))

\* o.replace("'", "\\'") on an attribute that may be None (AttributeError)
AttrReplaceQuote(o) == IF o = None THEN Raise ELSE Ok(replace_quote(o[1]))

LowerToken(tok) ==
    CASE tok = "TITLE" -> "title"
      [] tok = "Title" -> "title"
      [] tok = "A" -> "a"
      [] tok = "GET" -> "get"
      [] tok = "POST" -> "post"
      [] tok = "Post" -> "post"
      [] OTHER -> tok

\* str.lower()
lower(s) == [i \in 1..Len(s) |-> LowerToken(s[i])]

UpperToken(tok) ==
    CASE tok = "get" -> "GET"
      [] tok = "post" -> "POST"
      [] tok = "Post" -> "POST"
      [] OTHER -> tok

\* str.upper()
upper(s) == [i \in 1..Len(s) |-> UpperToken(s[i])]

\* o.lower() on an attribute that may be None (AttributeError)
AttrLower(o) == IF o = None THEN Raise ELSE Ok(lower(o[1]))

Placeholders ==
    {"{selector}", "{value}", "{url}", "{assertion}",
     "{base_url}", "{test_cases}", "{test_name}", "{test_description}", "{steps}",
     "{assertions}",
     "{method}", "{endpoint}", "{request_body}", "{request_headers}", "{body}",
     "{content_type}", "{additional_headers}", "{property}"}

\* str.format(**args): every placeholder of the template is replaced by the
\* argument of its name; a placeholder with no argument raises KeyError.
\* Arguments the template does not name are ignored, and the substituted
\* text is not parsed again.
RECURSIVE Format(_, _)
Format(template, args) ==
    IF template = <<>> THEN Ok(<<>>)
    ELSE LET tok == Head(template)
             piece == IF tok \in Placeholders
                      THEN (IF tok \in DOMAIN args THEN Ok(args[tok]) ELSE Raise)
                      ELSE Ok(<<tok>>)
         IN Bind(piece, LAMBDA p :
                Bind(Format(Tail(template), args), LAMBDA rest : Ok(p \o rest)))

-----------------------------------------------------------------------------
(* templates.py *)

NoTemplate == <<>>

SelectorStrategies == {"test-id", "aria-label", "text", "css", "xpath"}

\* SELECTOR_TEMPLATES.get(strategy)
SELECTOR_TEMPLATES(strategy) ==
    CASE strategy = "test-id" -> <<"page.getByTestId(", "'", "{selector}", "'", ")">>
      [] strategy = "aria-label" -> <<"page.getByLabel(", "'", "{selector}", "'", ")">>
      [] strategy = "text" -> <<"page.getByText(", "'", "{selector}", "'", ")">>
      [] strategy = "css" -> <<"page.locator(", "'", "{selector}", "'", ")">>
      [] strategy = "xpath" -> <<"page.locator(", "'", "{selector}", "'", ")">>
      [] OTHER -> NoTemplate

\* TEST_STEP_TEMPLATES.get(action)
TEST_STEP_TEMPLATES(action) ==
    CASE action = "navigate" -> <<"    await ", "page.goto(", "'", "{value}", "'", ");">>
      [] action = "goto" -> <<"    await ", "page.goto(", "'", "{url}", "'", ");">>
      [] action = "click" -> <<"    await ", "{selector}", ".click();">>
      [] action = "fill" -> <<"    await ", "{selector}", ".fill(", "'", "{value}", "'", ");">>
      [] action = "select" -> <<"    await ", "{selector}", ".selectOption(", "'", "{value}", "'", ");">>
      [] action = "submit" -> <<"    await ", "{selector}", ".click();", " // Submit form">>
      [] action = "hover" -> <<"    await ", "{selector}", ".hover();">>
      [] action = "check" -> <<"    await ", "{selector}", ".check();">>
      [] action = "uncheck" -> <<"    await ", "{selector}", ".uncheck();">>
      [] action = "expect" -> <<"    await ", "expect(", "{selector}", ")", ".", "{assertion}", "(", "{value}", ");">>
      [] action = "go_back" -> <<"    await ", "page.goBack();">>
      [] action = "reload" -> <<"    await ", "page.reload();">>
      [] action = "wait" -> <<"    await ", "page.waitForTimeout(", "{value}", ");",
                              " // Wait ", "{value}", "ms for dynamic content">>
      [] OTHER -> NoTemplate

-----------------------------------------------------------------------------
(* compiler.py: the selector resolver *)

Quotes == {"'", "\""}

\* the lengths k of a group (.+?) with which a:text\(['\"](.+?)['\"]\) matches
\* at the start of the selector
TextLinkGroupLens(selector) ==
    {k \in 1..(Len(selector) - 4) :
        /\ selector[1] = "a:text("
        /\ selector[2] \in Quotes
        /\ selector[3 + k] \in Quotes
        /\ selector[4 + k] = ")"}

Min(S) == CHOOSE x \in S : \A y \in S : x <= y

_normalize_selector(selector) ==
    IF TextLinkGroupLens(selector) # {}
    THEN SubSeq(selector, 3, 2 + Min(TextLinkGroupLens(selector)))
    ELSE IF StartsWith(selector, "text=")
    THEN Tail(selector)
    ELSE selector

Letters == {"a", "A", "title", "Title", "TITLE", "Submit"}
Whitespace == {" "}

\* re.match(r'^[a-zA-Z\s]+$', selector)
MatchesLettersAndSpaces(selector) ==
    /\ selector # <<>>
    /\ \A i \in 1..Len(selector) : selector[i] \in Letters \cup Whitespace

\* mutant: the letters-and-spaces test comes before the prefix tests are
\* finished, and the xpath test is lost
InferWithoutXpath(selector) ==
    IF StartsWith(selector, "[data-testid") THEN "test-id"
    ELSE IF StartsWith(selector, "[aria-label") THEN "aria-label"
    ELSE IF MatchesLettersAndSpaces(selector) THEN "text"
    ELSE "css"

_infer_selector_strategy(selector) ==
    IF StartsWith(selector, "[data-testid") THEN "test-id"
    ELSE IF StartsWith(selector, "[aria-label") THEN "aria-label"
    ELSE IF StartsWith(selector, "//") THEN "xpath"
    ELSE IF /\ MatchesLettersAndSpaces(selector)
            /\ ~StartsWith(selector, ".")
            /\ ~StartsWith(selector, "#")
    THEN "text"
    ELSE "css"

\* `not strategy`: None and the empty string are falsy
NoStrategy == "None"
StrategyFalsy(strategy) == strategy \in {NoStrategy, ""}

\* the strategy _generate_selector looks the template up with
EffectiveStrategy(selector, strategy) ==
    IF StrategyFalsy(strategy)
    THEN _infer_selector_strategy(_normalize_selector(selector))
    ELSE strategy

\* mutant: the qualifier is put on xpath locators too
FirstMatchStrategiesWithXpath == {"text", "css", "xpath"}

\* strategies whose locator gets the .first() qualifier
FirstMatchStrategies == {"text", "css"}

\* mutant: the fallback forgets the qualifier
UnknownStrategyLocatorUnqualified(selector) ==
    <<"page.locator(", "'">> \o selector \o <<"'", ")">>

\* the fallback for a strategy with no template
UnknownStrategyLocator(selector) ==
    <<"page.locator(", "'">> \o selector \o <<"'", ")", ".first()">>

_generate_selector(selector, strategy) ==
    LET sel == _normalize_selector(selector)
        strat == EffectiveStrategy(selector, strategy)
        template == SELECTOR_TEMPLATES(strat)
    IN IF template = NoTemplate
       THEN Ok(UnknownStrategyLocator(sel))
       ELSE Bind(Format(template, "{selector}" :> sel), LAMBDA base_selector :
                IF strat \in FirstMatchStrategies
                THEN Ok(base_selector \o <<".first()">>)
                ELSE Ok(base_selector))

-----------------------------------------------------------------------------
(* compiler.py: the action step compiler *)

\* if step.selector: escape its quotes and resolve it; else the page object
ExpectSelectorCode(st) ==
    IF Truthy(st.selector)
    THEN Bind(AttrReplaceQuote(st.selector), LAMBDA escaped_selector :
            _generate_selector(escaped_selector, st.selector_strategy))
    ELSE Ok(<<"page">>)

\* mutant: the selector is escaped without the `if step.selector` guard
RegularSelectorCodeUnguarded(st) ==
    Bind(AttrReplaceQuote(st.selector), LAMBDA escaped_selector :
        IF escaped_selector = <<>> THEN Ok(<<"page">>)
        ELSE _generate_selector(escaped_selector, st.selector_strategy))

RegularSelectorCode(st) ==
    IF Truthy(st.selector)
    THEN Bind(AttrReplaceQuote(st.selector), LAMBDA escaped_selector :
            _generate_selector(escaped_selector, st.selector_strategy))
    ELSE Ok(<<"page">>)

\* mutant: a goto step with no url and no value navigates to its selector
GotoCodeFromSelector(st) ==
    Format(TEST_STEP_TEMPLATES(st.action),
           "{url}" :> OrElse(st.url, OrElse(st.value, OrElse(st.selector, <<>>))))

GotoCode(st) ==
    Format(TEST_STEP_TEMPLATES(st.action),
           "{url}" :> OrElse(st.url, OrElse(st.value, <<>>)))

DefaultWait == <<"1000">>

WaitCode(st) ==
    Format(TEST_STEP_TEMPLATES(st.action), "{value}" :> OrElse(st.value, DefaultWait))

FixedCode(st) == Ok(TEST_STEP_TEMPLATES(st.action))

\* mutant: the sentinel is compared without lower()
IsTitleSelectorCaseSensitive(st) ==
    IF Truthy(st.selector) THEN Ok(st.selector[1] = <<"title">>) ELSE Ok(FALSE)

\* step.selector and step.selector.lower() == 'title'
IsTitleSelector(st) ==
    IF Truthy(st.selector)
    THEN Bind(AttrLower(st.selector), LAMBDA l : Ok(l = <<"title">>))
    ELSE Ok(FALSE)

TitleCode(st) ==
    IF Truthy(st.value)
    THEN Bind(AttrReplaceQuote(st.value), LAMBDA escaped_value :
            Ok(<<"    await ", "expect(", "page", ")", ".", "toHaveTitle", "(", "/">>
               \o escaped_value \o <<"/", ");">>))
    ELSE Ok(<<"    // SKIPPED: ", "Title assertion requires a value">>)

\* mutant: one kind is missing from the list
no_value_assertions_short ==
    { <<"toBeVisible">>, <<"toBeHidden">>, <<"toBeEnabled">>, <<"toBeDisabled">>,
      <<"toBeChecked">>, <<"toBeEditable">>, <<"toBeEmpty">>, <<"toBeFocused">>,
      <<"toBeAttached">> }

no_value_assertions ==
    { <<"toBeVisible">>, <<"toBeHidden">>, <<"toBeEnabled">>, <<"toBeDisabled">>,
      <<"toBeChecked">>, <<"toBeEditable">>, <<"toBeEmpty">>, <<"toBeFocused">>,
      <<"toBeAttached">>, <<"toBeInViewport">> }

DefaultAssertion == <<"toBeVisible">>

\* hasattr(step, 'timeout') and step.timeout
TimeoutOption(st) ==
    IF Truthy(st.timeout) THEN <<"{ timeout: ">> \o st.timeout[1] \o <<" }">> ELSE <<>>

ExpectHead(selector_code, assertion) ==
    <<"    await ", "expect(">> \o selector_code \o <<")", ".">> \o assertion \o <<"(">>

\* mutant: a kind that takes a value is emitted with an empty argument
\* list when the value is missing
AssertionCodeNoSkip(st, selector_code) ==
    LET assertion == OrElse(st.assertion, DefaultAssertion)
        timeout_option == TimeoutOption(st)
    IN IF assertion \in no_value_assertions \/ ~Truthy(st.value)
       THEN Ok(ExpectHead(selector_code, assertion) \o timeout_option \o <<");">>)
       ELSE Bind(AttrReplaceQuote(st.value), LAMBDA escaped_value :
               LET value_str == <<"'">> \o escaped_value \o <<"'">>
               IN IF timeout_option # <<>>
                  THEN Ok(ExpectHead(selector_code, assertion) \o value_str
                          \o <<", ">> \o timeout_option \o <<");">>)
                  ELSE Ok(ExpectHead(selector_code, assertion) \o value_str \o <<");">>))

\* the assertion dispatch on a resolved selector
AssertionCode(st, selector_code) ==
    LET assertion == OrElse(st.assertion, DefaultAssertion)
        timeout_option == TimeoutOption(st)
    IN IF assertion \in no_value_assertions
       THEN Ok(ExpectHead(selector_code, assertion) \o timeout_option \o <<");">>)
       ELSE IF Truthy(st.value)
       THEN Bind(AttrReplaceQuote(st.value), LAMBDA escaped_value :
               LET value_str == <<"'">> \o escaped_value \o <<"'">>
               IN IF timeout_option # <<>>
                  THEN Ok(ExpectHead(selector_code, assertion) \o value_str
                          \o <<", ">> \o timeout_option \o <<");">>)
                  ELSE Ok(ExpectHead(selector_code, assertion) \o value_str \o <<");">>))
       ELSE Ok(<<"    // SKIPPED: ">> \o assertion
               \o <<" requires a value but none was provided">>)

ExpectCode(st) ==
    Bind(IsTitleSelector(st), LAMBDA is_title :
        IF is_title
        THEN TitleCode(st)
        ELSE Bind(ExpectSelectorCode(st), LAMBDA selector_code :
                AssertionCode(st, selector_code)))

RegularCode(st) ==
    Bind(RegularSelectorCode(st), LAMBDA selector_code :
        Format(TEST_STEP_TEMPLATES(st.action),
               ("{selector}" :> selector_code)
               @@ ("{value}" :> OrElse(st.value, <<>>))
               @@ ("{description}" :> OrElse(st.description, <<>>))))

\* the statement (or diagnostic comment) of a step whose action has a template
ActionCode(st) ==
    IF st.action = "goto" THEN GotoCode(st)
    ELSE IF st.action = "wait" THEN WaitCode(st)
    ELSE IF st.action \in {"go_back", "reload"} THEN FixedCode(st)
    ELSE IF st.action = "expect" THEN ExpectCode(st)
    ELSE RegularCode(st)

\* the text an f-string gives for step.action: the value of the enum member
\* (str-mixin enums format as their value before Python 3.11 and as
\* ActionType.<NAME> from 3.11 on; either way one token naming the action)
ActionText(action) == <<action>>

\* the traceability comment line
StepComment(st, n) ==
    <<"    // Step ", ToString(n), ": ">> \o OrElse(st.description, ActionText(st.action))
    \o <<"\n">>

\* mutant: an action with no template raises the KeyError of the lookup
_compile_step_strict(st, n) ==
    IF TEST_STEP_TEMPLATES(st.action) = NoTemplate
    THEN Raise
    ELSE Bind(ActionCode(st), LAMBDA action_code : Ok(StepComment(st, n) \o action_code))

_compile_step(st, n) ==
    IF TEST_STEP_TEMPLATES(st.action) = NoTemplate
    THEN Ok(<<"    // Unsupported action: ">> \o ActionText(st.action))
    ELSE Bind(ActionCode(st), LAMBDA action_code : Ok(StepComment(st, n) \o action_code))

-----------------------------------------------------------------------------
(* templates.py and compiler.py: the script assembler *)

\* str.join
RECURSIVE Join(_, _)
Join(parts, sep) ==
    IF parts = <<>> THEN <<>>
    ELSE IF Len(parts) = 1 THEN parts[1]
    ELSE parts[1] \o sep \o Join(Tail(parts), sep)

TEST_FILE_TEMPLATE ==
    << "import { test, expect } from ", "'", "@playwright/test", "'", ";", "\n",
       "\n",
       "test.describe(", "'", "Generated E2E Tests", "'", ", () => {", "\n",
       "  test.beforeEach(", "async ({ page }) => {", "\n",
       "    await ", "page.goto(", "'", "{base_url}", "'", ");", "\n",
       "  });", "\n",
       "\n",
       "{test_cases}", "\n",
       "});", "\n" >>

TEST_CASE_TEMPLATE ==
    << "  test(", "'", "{test_name}", "'", ", async ({ page }) => {", "\n",
       "    // ", "{test_description}", "\n",
       "\n",
       "{steps}", "\n",
       "\n",
       "{assertions}", "\n",
       "  });" >>

\* mutant: the steps are numbered as enumerate numbers without a start
FirstStepNumberZero == 1 - 1

\* enumerate(test_case.steps, 1)
FirstStepNumber == 1

\* the loop over the steps: the fragments of steps, numbered from i on
RECURSIVE steps_code(_, _)
steps_code(steps, i) ==
    IF steps = <<>> THEN Ok(<<>>)
    ELSE Bind(_compile_step(Head(steps), i), LAMBDA step_code :
            Bind(steps_code(Tail(steps), i + 1), LAMBDA rest : Ok(<<step_code>> \o rest)))

\* the loop over the free-text assertions of the case
assertions_code(assertions) ==
    [i \in 1..Len(assertions) |-> <<"    // Assert: ">> \o assertions[i]]

NoAssertions == <<"    // No explicit assertions">>

_compile_test_case(test_case) ==
    Bind(steps_code(test_case.steps, FirstStepNumber), LAMBDA sc :
        Format(TEST_CASE_TEMPLATE,
               ("{test_name}" :> test_case.name)
               @@ ("{test_description}" :> test_case.description)
               @@ ("{steps}" :> Join(sc, <<"\n">>))
               @@ ("{assertions}" :> IF test_case.assertions # <<>>
                                     THEN Join(assertions_code(test_case.assertions), <<"\n">>)
                                     ELSE NoAssertions)))

\* the loop over the cases of the suite
RECURSIVE test_cases_code(_)
test_cases_code(test_cases) ==
    IF test_cases = <<>> THEN Ok(<<>>)
    ELSE Bind(_compile_test_case(Head(test_cases)), LAMBDA test_code :
            Bind(test_cases_code(Tail(test_cases)), LAMBDA rest : Ok(<<test_code>> \o rest)))

\* the text compile() hands to _save_spec_file
file_content(test_suite) ==
    Bind(test_cases_code(test_suite.test_cases), LAMBDA tcc :
        Format(TEST_FILE_TEMPLATE,
               ("{base_url}" :> test_suite.base_url)
               @@ ("{test_cases}" :> Join(tcc, <<"\n", "\n">>))))

-----------------------------------------------------------------------------
(* api_templates.py and api_compiler.py: the file of the API tests *)

API_TEST_FILE_TEMPLATE ==
    << "import { test, expect } from ", "'", "@playwright/test", "'", ";", "\n",
       "\n",
       "test.describe(", "'", "API Tests - ", "{base_url}", "'", ", () => {", "\n",
       "\n",
       "{test_cases}", "\n",
       "\n",
       "});", "\n" >>

\* the text compile_api_tests hands to _save_spec_file, from the code of
\* its tests
api_file_content(api_tests_code, base_url) ==
    Format(API_TEST_FILE_TEMPLATE,
           ("{base_url}" :> base_url)
           @@ ("{test_cases}" :> Join(api_tests_code, <<"\n", "\n">>)))

-----------------------------------------------------------------------------
(* JSON values of an API entry *)

\* A value read from the suite file is an object (its items in order, each
\* a pair of a key and a string), an array (its elements) or a string.  A
\* key of the entry that is missing is None.
JDict(items) == [type |-> "dict", items |-> items, elems |-> <<>>, text |-> <<>>]
JList(elems) == [type |-> "list", items |-> <<>>, elems |-> elems, text |-> <<>>]
JStr(text) == [type |-> "str", items |-> <<>>, elems |-> <<>>, text |-> text]

\* truthiness of test.get(key): a missing key, {}, [] and "" are falsy
JTruthy(o) ==
    /\ o # None
    /\ CASE o[1].type = "dict" -> o[1].items # <<>>
         [] o[1].type = "list" -> o[1].elems # <<>>
         [] OTHER -> o[1].text # <<>>

\* dict.get(key, default) on the items of an object
DictGet(items, key, default) ==
    IF \E i \in 1..Len(items) : items[i][1] = key
    THEN items[CHOOSE i \in 1..Len(items) : items[i][1] = key][2]
    ELSE default

\* the characters json.dumps escapes inside a string
RECURSIVE json_escape(_)
json_escape(s) ==
    IF s = <<>> THEN <<>>
    ELSE (IF Head(s) \in {"\"", "\\"} THEN <<"\\", Head(s)>> ELSE <<Head(s)>>)
         \o json_escape(Tail(s))

json_string(s) == <<"\"">> \o json_escape(s) \o <<"\"">>

\* the indentation json.dumps(..., indent=8) gives the items of the object
JsonIndent == <<"        ">>

\* json.dumps(value, indent=8)
json_dumps(value) ==
    CASE value.type = "str" -> json_string(value.text)
      [] value.type = "list" ->
            IF value.elems = <<>> THEN <<"[]">>
            ELSE <<"[", "\n">>
                 \o Join([i \in 1..Len(value.elems) |->
                             JsonIndent \o json_string(value.elems[i])], <<",", "\n">>)
                 \o <<"\n", "]">>
      [] OTHER ->
            IF value.items = <<>> THEN <<"{}">>
            ELSE <<"{", "\n">>
                 \o Join([i \in 1..Len(value.items) |->
                             JsonIndent \o json_string(value.items[i][1]) \o <<": ">>
                             \o json_string(value.items[i][2])], <<",", "\n">>)
                 \o <<"\n", "}">>

-----------------------------------------------------------------------------
(* api_templates.py and api_compiler.py: the compiler of one API entry *)

API_TEST_CASE_TEMPLATE ==
    << "  test(", "'", "{test_name}", "'", ", async ({ request }) => {", "\n",
       "    // ", "{test_description}", "\n",
       "    ", "\n",
       "    const response = await request.", "{method}", "(", "'", "{endpoint}", "'",
       ", {", "\n",
       "{request_body}", "\n",
       "{request_headers}", "\n",
       "    });", "\n",
       "    ", "\n",
       "{assertions}", "\n",
       "  });" >>

StatusEquals(code) == <<"    expect(response.status()).toBe(", code, ");">>

\* API_ASSERTIONS[key]
API_ASSERTIONS(key) ==
    CASE key = "status_200" ->
            <<"    expect(response.ok()).toBeTruthy();", "\n">> \o StatusEquals("200")
      [] key = "status_201" -> StatusEquals("201")
      [] key = "status_400" -> StatusEquals("400")
      [] key = "status_401" -> StatusEquals("401")
      [] key = "status_404" -> StatusEquals("404")
      [] key = "status_500" -> StatusEquals("500")
      [] key = "response_time" ->
            <<"    expect(response.headers()[", "'", "x-response-time", "'", "]).toBeDefined();">>
      [] key = "json_schema" ->
            <<"    const body = await response.json();", "\n",
              "    expect(body).toHaveProperty(", "'", "{property}", "'", ");">>
      [] key = "array_length" ->
            <<"    const body = await response.json();", "\n",
              "    expect(Array.isArray(body)).toBeTruthy();", "\n",
              "    expect(body.length).toBeGreaterThan(0);">>

\* REQUEST_BODY_TEMPLATES.get(body_type, REQUEST_BODY_TEMPLATES['json'])
REQUEST_BODY_TEMPLATES(body_type) ==
    CASE body_type = <<"form">> -> <<"      form: ", "{body}">>
      [] body_type = <<"multipart">> -> <<"      multipart: ", "{body}">>
      [] OTHER -> <<"      data: ", "{body}">>

HEADER_TEMPLATE ==
    << "      headers: {", "\n",
       "        ", "'", "Content-Type", "'", ": ", "'", "{content_type}", "'", ",", "\n",
       "{additional_headers}", "\n",
       "      }" >>

\* test.get('method', 'get').lower()
api_method(test) == lower(IF test.method = None THEN <<"get">> ELSE test.method[1])

\* mutant: an entry without an endpoint is sent to the empty path
api_endpoint_empty(test) == IF test.endpoint = None THEN <<>> ELSE test.endpoint[1]

\* test.get('endpoint', '/')
api_endpoint(test) == IF test.endpoint = None THEN <<"/">> ELSE test.endpoint[1]

\* test.get('expected_status', 200)
api_expected_status(test) ==
    IF test.expected_status = None THEN 200 ELSE test.expected_status[1]

\* if test.get('body'): the template of the body type on the dumped body
api_request_body(test) ==
    IF JTruthy(test.body)
    THEN Format(REQUEST_BODY_TEMPLATES(IF test.body_type = None THEN <<"json">>
                                       ELSE test.body_type[1]),
                "{body}" :> json_dumps(test.body[1]))
    ELSE Ok(<<>>)

\* mutant: the Content-Type item is listed among the additional headers too
additional_headers_all(items) ==
    Join([i \in 1..Len(items) |->
             <<"        ", "'">> \o items[i][1] \o <<"'", ": ", "'">> \o items[i][2]
             \o <<"'", ",">>],
         <<"\n">>)

\* the lines of the headers other than Content-Type
additional_headers(items) ==
    LET others == SelectSeq(items, LAMBDA item : item[1] # <<"Content-Type">>)
    IN Join([i \in 1..Len(others) |->
                <<"        ", "'">> \o others[i][1] \o <<"'", ": ", "'">> \o others[i][2]
                \o <<"'", ",">>],
            <<"\n">>)

\* if test.get('headers'): the header template
api_request_headers(test) ==
    IF JTruthy(test.headers)
    THEN Format(HEADER_TEMPLATE,
                ("{content_type}" :> DictGet(test.headers[1].items, <<"Content-Type">>,
                                            <<"application/json">>))
                @@ ("{additional_headers}" :> additional_headers(test.headers[1].items)))
    ELSE Ok(<<>>)

\* mutant: every code is asserted by the direct equality
status_assertion_direct(expected_status) == StatusEquals(ToString(expected_status))

\* the chain of comparisons on expected_status
status_assertion(expected_status) ==
    IF expected_status = 200 THEN API_ASSERTIONS("status_200")
    ELSE IF expected_status = 201 THEN API_ASSERTIONS("status_201")
    ELSE IF expected_status = 400 THEN API_ASSERTIONS("status_400")
    ELSE IF expected_status = 401 THEN API_ASSERTIONS("status_401")
    ELSE IF expected_status = 404 THEN API_ASSERTIONS("status_404")
    ELSE StatusEquals(ToString(expected_status))

\* the loop over the keys of an object expectation
RECURSIVE json_schema_assertions(_)
json_schema_assertions(items) ==
    IF items = <<>> THEN Ok(<<>>)
    ELSE Bind(Format(API_ASSERTIONS("json_schema"), "{property}" :> Head(items)[1]),
              LAMBDA a : Bind(json_schema_assertions(Tail(items)),
                              LAMBDA rest : Ok(<<a>> \o rest)))

\* if test.get('expected_body'): the assertions on the response body
body_assertions(test) ==
    IF ~JTruthy(test.expected_body) THEN Ok(<<>>)
    ELSE IF test.expected_body[1].type = "dict"
    THEN json_schema_assertions(test.expected_body[1].items)
    ELSE IF test.expected_body[1] = JStr(<<"array">>)
    THEN Ok(<<API_ASSERTIONS("array_length")>>)
    ELSE Ok(<<>>)

\* if test.get('max_response_time_ms'): a comment
response_time_assertions(test) ==
    IF test.max_response_time_ms # None /\ test.max_response_time_ms[1] # 0
    THEN << <<"    // Response time should be under ",
              ToString(test.max_response_time_ms[1]), "ms">> >>
    ELSE <<>>

_compile_api_test(test) ==
    LET method == api_method(test)
        endpoint == api_endpoint(test)
    IN Bind(api_request_body(test), LAMBDA request_body :
         Bind(api_request_headers(test), LAMBDA request_headers :
           Bind(body_assertions(test), LAMBDA on_body :
             Format(API_TEST_CASE_TEMPLATE,
                    ("{test_name}" :> IF test.name = None
                                      THEN upper(method) \o <<" ">> \o endpoint
                                      ELSE test.name[1])
                    @@ ("{test_description}" :> IF test.description = None
                                                THEN <<"Tests ">> \o upper(method)
                                                     \o <<" ">> \o endpoint
                                                ELSE test.description[1])
                    @@ ("{method}" :> method)
                    @@ ("{endpoint}" :> endpoint)
                    @@ ("{request_body}" :> request_body)
                    @@ ("{request_headers}" :> request_headers)
                    @@ ("{assertions}" :>
                            Join(<<status_assertion(api_expected_status(test))>>
                                 \o on_body \o response_time_assertions(test),
                                 <<"\n">>))))))

\* the loop of compile_api_tests over the entries
RECURSIVE api_tests_code(_)
api_tests_code(api_tests) ==
    IF api_tests = <<>> THEN Ok(<<>>)
    ELSE Bind(_compile_api_test(Head(api_tests)), LAMBDA test_code :
            Bind(api_tests_code(Tail(api_tests)), LAMBDA rest : Ok(<<test_code>> \o rest)))

-----------------------------------------------------------------------------
(* compiler.py and api_compiler.py: _save_spec_file on the file system *)

\* A path is the sequence of its components, each a string.  The file
\* system is the set of directories that exist and the text of each file
\* that exists.

\* Path(self.config.storage.test_specs_path) / "compiled"
output_dir(cfg) == <<cfg.storage.test_specs_path, <<"compiled">>>>

\* TestCompiler: output_dir / f"{suite_id}.spec.ts"
output_path(cfg, suite_id) == Append(output_dir(cfg), suite_id \o <<".spec.ts">>)

\* APITestCompiler: output_dir / f"{suite_id}_api.spec.ts"
api_output_path(cfg, suite_id) ==
    Append(output_dir(cfg), suite_id \o <<"_api", ".spec.ts">>)

\* the path and its parents
Ancestors(path) == {SubSeq(path, 1, k) : k \in 1..Len(path)}

\* Path.mkdir(parents=True, exist_ok=True): FileExistsError when a file is
\* in the way
mkdir(f, dir) ==
    IF \E a \in Ancestors(dir) : a \in DOMAIN f.files
    THEN Raise
    ELSE Ok([f EXCEPT !.dirs = @ \cup Ancestors(dir)])

\* mutant: the file is opened without being emptied
open_keep(f, path) ==
    IF SubSeq(path, 1, Len(path) - 1) \notin f.dirs \/ path \in f.dirs
    THEN Raise
    ELSE Ok([f EXCEPT !.files =
                [q \in DOMAIN f.files \cup {path} |->
                    IF q \in DOMAIN f.files THEN f.files[q] ELSE <<>>]])

\* open(path, "w"): the file is created or emptied; FileNotFoundError when
\* the directory is missing, IsADirectoryError on a directory
open_truncate(f, path) ==
    IF SubSeq(path, 1, Len(path) - 1) \notin f.dirs \/ path \in f.dirs
    THEN Raise
    ELSE Ok([f EXCEPT !.files =
                [q \in DOMAIN f.files \cup {path} |->
                    IF q = path THEN <<>> ELSE f.files[q]]])

\* write(data) through a handle opened at the start of the file: the data
\* replaces what the file holds there and what lies behind it stays
write_at_start(f, path, data) ==
    LET old == f.files[path]
    IN [f EXCEPT !.files[path] = data \o SubSeq(old, Len(data) + 1, Len(old))]

\* Path.write_text(content)
write_text(f, path, content) ==
    Bind(open_truncate(f, path), LAMBDA opened : Ok(write_at_start(opened, path, content)))

\* TestCompiler._save_spec_file: the file system it leaves and the path it
\* returns
_save_spec_file(cfg, f, suite_id, content) ==
    Bind(mkdir(f, output_dir(cfg)), LAMBDA made :
        Bind(write_text(made, output_path(cfg, suite_id), content), LAMBDA written :
            Ok([fs |-> written, output_path |-> output_path(cfg, suite_id)])))

\* mutant: the file starts with a line that counts the compile calls made
compile_stamped(cfg, f, test_suite) ==
    Bind(file_content(test_suite), LAMBDA content :
        Bind(_save_spec_file(cfg, f, test_suite.suite_id,
                             <<"// run ", ToString(Len(done) + 1), "\n">> \o content),
             LAMBDA saved :
                Ok([fs |-> saved.fs, output_path |-> saved.output_path,
                    file_content |-> <<"// run ", ToString(Len(done) + 1), "\n">> \o content])))

\* TestCompiler.compile: the content, the file system it leaves and the
\* path it returns
compile(cfg, f, test_suite) ==
    Bind(file_content(test_suite), LAMBDA content :
        Bind(_save_spec_file(cfg, f, test_suite.suite_id, content), LAMBDA saved :
            Ok([fs |-> saved.fs, output_path |-> saved.output_path,
                file_content |-> content])))

\* APITestCompiler._save_spec_file
api_save_spec_file(cfg, f, suite_id, content) ==
    Bind(mkdir(f, output_dir(cfg)), LAMBDA made :
        Bind(write_text(made, api_output_path(cfg, suite_id), content), LAMBDA written :
            Ok([fs |-> written, output_path |-> api_output_path(cfg, suite_id)])))

\* APITestCompiler.compile_api_tests: the code of the entries, the content,
\* the file system it leaves and the path it returns
compile_api_tests(cfg, f, api_tests, base_url, suite_id) ==
    Bind(api_tests_code(api_tests), LAMBDA tcc :
        Bind(api_file_content(tcc, base_url), LAMBDA content :
            Bind(api_save_spec_file(cfg, f, suite_id, content), LAMBDA saved :
                Ok([fs |-> saved.fs, output_path |-> saved.output_path,
                    test_cases_code |-> tcc, file_content |-> content]))))

-----------------------------------------------------------------------------
(* Inputs *)

\* all strings of at most n tokens of A
Strs(A, n) == UNION {[1..k -> A] : k \in 0..n}

\* an action with no template stands for every unrecognised action
TemplateActions ==
    {"navigate", "goto", "click", "fill", "select", "submit", "hover", "check",
     "uncheck", "expect", "go_back", "reload", "wait"}
Actions == TemplateActions \cup {"drag"}

\* None, the five strategies and one unrecognised value
Strategies == {NoStrategy} \cup SelectorStrategies \cup {"role"}

TitleSelectors == {<<"title">>, <<"TITLE">>, <<"Title">>}

\* selectors in the notations the resolver recognises
SpecialSelectors ==
    { <<"[data-testid", "=", "a", "]">>, <<"[aria-label", "=", "a", "]">>,
      <<"//", "a">>, <<"Submit", " ", "a">>, <<"#", "a">>,
      <<"text=", "a">>,
      <<"a:text(", "'", "a", "'", ")">>, <<"a:text(", "\"", "a", "\"", ")">>,
      <<"a:text(", "\"", "a", "'", "a", "\"", ")">> }

Timeouts == {None, Some(<<"5000">>)}

\* (1) any step: every action, every field absent, empty or present
AnySteps ==
    [action : Actions,
     selector : {None} \cup {Some(s) : s \in Strs({"a", "'"}, MaxSelLen) \cup {<<"title">>}},
     selector_strategy : {NoStrategy, "text", "test-id", "role"},
     value : {None} \cup {Some(s) : s \in Strs({"a", "'"}, MaxValLen)},
     assertion : {None, Some(<<>>), Some(<<"toBeVisible">>), Some(<<"toHaveText">>)},
     url : {None, Some(<<>>), Some(<<"/home">>)},
     description : {None, Some(<<>>), Some(<<"Open", " ", "page">>)},
     timeout : Timeouts]

\* (2) steps that embed a selector or a value in a quoted literal, over
\* strings of letters, quotes and backslashes
QuoteChars == {"a", "'", "\\"}

LiteralActions ==
    {"click", "fill", "select", "submit", "hover", "check", "uncheck", "expect"}

QuoteSteps ==
    [action : LiteralActions,
     selector : {Some(s) : s \in Strs(QuoteChars, MaxQuoteLen) \cup SpecialSelectors},
     selector_strategy : Strategies,
     value : {None} \cup {Some(s) : s \in Strs(QuoteChars, MaxQuoteLen)},
     assertion : {Some(<<"toBeVisible">>), Some(<<"toHaveText">>)},
     url : {None},
     description : {Some(<<"Open", " ", "page">>)},
     timeout : {None}]

\* (3) expect steps over every assertion kind of the value-free set, two
\* kinds that take a value and one unknown kind
ExpectAssertions ==
    {None, Some(<<>>)}
    \cup {Some(<<k>>) : k \in {"toBeVisible", "toBeHidden", "toBeEnabled", "toBeDisabled",
                               "toBeChecked", "toBeEditable", "toBeEmpty", "toBeFocused",
                               "toBeAttached", "toBeInViewport",
                               "toHaveText", "toHaveValue", "toFoo"}}

ExpectSteps ==
    [action : {"expect"},
     selector : {None} \cup {Some(s) : s \in Strs({"a", "'"}, MaxSelLen)
                                         \cup TitleSelectors \cup SpecialSelectors},
     selector_strategy : {NoStrategy, "css", "test-id"},
     value : {None} \cup {Some(s) : s \in Strs(QuoteChars, MaxValLen)},
     assertion : ExpectAssertions,
     url : {None},
     description : {Some(<<"Open", " ", "page">>)},
     timeout : Timeouts]

-----------------------------------------------------------------------------
(* Specification: one call of _compile_step on any step *)

NoResult == [ok |-> TRUE, val |-> <<>>]

\* config.py: StorageConfig.test_specs_path
DefaultConfig == [storage |-> [test_specs_path |-> <<"./backend/test_specs">>]]

\* get_config() has run ensure_storage_paths: the storage path exists
EmptyStore(cfg) == [dirs |-> {<<cfg.storage.test_specs_path>>}, files |-> <<>>]

\* no compile call is made
StoreIdle ==
    /\ config = DefaultConfig
    /\ fs = EmptyStore(DefaultConfig)
    /\ queue = <<>>
    /\ done = <<>>
    /\ calls = <<>>

Init ==
    /\ pc = "start"
    /\ \/ step \in AnySteps /\ step_number \in 1..MaxStepNumber
       \/ step \in QuoteSteps \cup ExpectSteps /\ step_number = 1
    /\ result = NoResult
    /\ StoreIdle

CompileStep ==
    /\ pc = "start"
    /\ result' = _compile_step(step, step_number)
    /\ pc' = IF result'.ok THEN "compiled" ELSE "raised"
    /\ UNCHANGED <<step, step_number>>
    /\ UNCHANGED storeVars

Next == CompileStep

Spec == Init /\ [][Next]_vars

-----------------------------------------------------------------------------
(* Specification: one call of _generate_selector on any selector *)

MidChars == {"a", " ", "'", "#"}

\* notations _normalize_selector rewrites, around the selector proper
OuterWraps ==
    { <<<<>>, <<>>>>, <<<<"text=">>, <<>>>>,
      <<<<"a:text(", "'">>, <<"'", ")">>>>, <<<<"a:text(", "\"">>, <<"\"", ")">>>> }

\* prefixes _infer_selector_strategy looks at
InnerPrefixes == {<<>>, <<"[data-testid">>, <<"[aria-label">>, <<"//">>, <<"#">>, <<".">>}

ResolverSelectors ==
    {w[1] \o p \o m \o w[2] : w \in OuterWraps, p \in InnerPrefixes,
                              m \in Strs(MidChars, MaxMidLen)} \ {<<>>}

ResolverSteps ==
    [action : {"click"},
     selector : {Some(s) : s \in ResolverSelectors},
     selector_strategy : Strategies \cup {""},
     value : {None}, assertion : {None}, url : {None},
     description : {None}, timeout : {None}]

InitSel ==
    /\ pc = "start"
    /\ step \in ResolverSteps
    /\ step_number = 1
    /\ result = NoResult
    /\ StoreIdle

GenerateSelector ==
    /\ pc = "start"
    /\ result' = _generate_selector(step.selector[1], step.selector_strategy)
    /\ pc' = "located"
    /\ UNCHANGED <<step, step_number>>
    /\ UNCHANGED storeVars

NextSel == GenerateSelector

SpecSel == InitSel /\ [][NextSel]_vars

-----------------------------------------------------------------------------
(* Specification: compile() calls made one after the other *)

\* a step with a selector and nothing else
PlainStep(action) ==
    [action |-> action, selector |-> Some(<<"#", "a">>), selector_strategy |-> NoStrategy,
     value |-> None, assertion |-> None, url |-> None, description |-> None,
     timeout |-> None]

ClickStep == [PlainStep("click") EXCEPT !.description = Some(<<"Open", " ", "page">>)]

\* a step that compiles to a statement, one with no template, one that is
\* skipped, one that embeds a value
CaseSteps ==
    { ClickStep,
      PlainStep("drag"),
      [PlainStep("expect") EXCEPT !.assertion = Some(<<"toHaveText">>)],
      [PlainStep("fill") EXCEPT !.value = Some(<<"a">>)] }

\* cases over every sequence of steps
RichCases ==
    [name : {<<"login">>}, description : {<<"checks the form">>},
     steps : Strs(CaseSteps, MaxSteps),
     assertions : {<<>>, <<<<"form is sent">>>>}]

\* cases that differ in name, steps and assertions
SimpleCases ==
    [name : {<<"login">>, <<"logout">>}, description : {<<"checks the form">>},
     steps : {<<>>, <<ClickStep>>},
     assertions : {<<>>, <<<<"form is sent">>, <<"page is shown">>>>}]

LogoutCase ==
    [name |-> <<"logout">>, description |-> <<"checks the form">>,
     steps |-> <<ClickStep>>, assertions |-> <<>>]

BaseUrls == {<<"https://example.com/">>}

\* suites of up to MaxCases simple cases, and suites with one rich case
CompileSuites ==
    [suite_id : {<<"s1">>}, name : {<<"Suite">>}, base_url : BaseUrls,
     test_cases : Strs(SimpleCases, MaxCases)
                  \cup {<<c>> : c \in RichCases}
                  \cup {<<LogoutCase, c>> : c \in RichCases}]

\* a short and a longer suite of one suite id, and a suite of another
StoreSuites ==
    [suite_id : {<<"s1">>}, name : {<<"Suite">>}, base_url : BaseUrls,
     test_cases : {<<>>, <<LogoutCase>>}]
    \cup [suite_id : {<<"s2">>}, name : {<<"Suite">>}, base_url : BaseUrls,
          test_cases : {<<LogoutCase>>}]

\* the TestCompiler instances; each holds the configuration get_config()
\* gave its constructor
Compilers == {"compiler1", "compiler2"}

CompileCalls == [compiler : {"compiler1"}, test_suite : CompileSuites]
StoreCalls == [compiler : Compilers, test_suite : StoreSuites]

\* the artifact an earlier, longer version of suite s1 left behind
StaleSuite ==
    [suite_id |-> <<"s1">>, name |-> <<"Suite">>, base_url |-> <<"https://example.com/">>,
     test_cases |-> <<LogoutCase, LogoutCase, LogoutCase>>]

StaleStore(cfg) == compile(cfg, EmptyStore(cfg), StaleSuite).val.fs

StepIdle ==
    /\ pc = "idle"
    /\ step = None
    /\ step_number = 0
    /\ result = NoResult

InitCompile ==
    /\ StepIdle
    /\ config = DefaultConfig
    /\ done = <<>>
    /\ calls = <<>>
    /\ fs \in {EmptyStore(config), StaleStore(config)}
    /\ queue \in {<<c>> : c \in CompileCalls} \cup Strs(StoreCalls, MaxCalls)

\* the next call of the queue runs from its first line to its return; the
\* log keeps what it was given, what it returned and whether it changed the
\* file system
Compile ==
    /\ queue # <<>>
    /\ LET call == Head(queue)
           r == compile(config, fs, call.test_suite)
       IN /\ fs' = IF r.ok THEN r.val.fs ELSE fs
          /\ done' = Append(done,
                            [compiler |-> call.compiler, test_suite |-> call.test_suite,
                             ok |-> r.ok,
                             changed |-> r.ok /\ r.val.fs # fs,
                             output_path |-> IF r.ok THEN r.val.output_path ELSE <<>>,
                             file_content |-> IF r.ok THEN r.val.file_content ELSE <<>>])
    /\ queue' = Tail(queue)
    /\ UNCHANGED <<config, calls>>
    /\ UNCHANGED stepVars

NextCompile == Compile

SpecCompile == InitCompile /\ [][NextCompile]_vars

-----------------------------------------------------------------------------
(* Specification: compile calls that run at the same time *)

\* Each call has built its text and holds it with its suite id; what is
\* left of it is _save_spec_file, whose file system calls are the steps:
\* mkdir, open (which empties the file), write, and the return.

\* suite ids, one of them ending the way the API compiler ends its file
\* names
RaceSuites ==
    [suite_id : {<<"s1">>, <<"s1", "_api">>}, name : {<<"Suite">>}, base_url : BaseUrls,
     test_cases : {<<>>, <<LogoutCase>>}]

\* a compile() call on a suite, or a compile_api_tests() call on an empty
\* list of tests
RaceCalls ==
    {[compiler |-> "TestCompiler", suite_id |-> s.suite_id,
      file_content |-> file_content(s).val] : s \in RaceSuites}
    \cup {[compiler |-> "APITestCompiler", suite_id |-> id,
           file_content |-> api_file_content(<<>>, u).val] :
                id \in {<<"s1">>, <<"s2">>}, u \in BaseUrls}

\* the path the call writes
SavePath(call) ==
    IF call.compiler = "TestCompiler"
    THEN output_path(config, call.suite_id)
    ELSE api_output_path(config, call.suite_id)

InitRace ==
    /\ StepIdle
    /\ config = DefaultConfig
    /\ done = <<>>
    /\ queue = <<>>
    /\ fs \in {EmptyStore(config), StaleStore(config)}
    /\ calls \in [1..MaxRacers -> [call : RaceCalls, pc : {"mkdir"}]]

\* output_dir.mkdir(parents=True, exist_ok=True)
MakeDir(i) ==
    /\ calls[i].pc = "mkdir"
    /\ LET r == mkdir(fs, output_dir(config))
       IN /\ fs' = IF r.ok THEN r.val ELSE fs
          /\ calls' = [calls EXCEPT ![i].pc = IF r.ok THEN "open" ELSE "raised"]
    /\ UNCHANGED <<config, queue, done>>
    /\ UNCHANGED stepVars

\* write_text opens the file for writing
OpenFile(i) ==
    /\ calls[i].pc = "open"
    /\ LET r == open_truncate(fs, SavePath(calls[i].call))
       IN /\ fs' = IF r.ok THEN r.val ELSE fs
          /\ calls' = [calls EXCEPT ![i].pc = IF r.ok THEN "write" ELSE "raised"]
    /\ UNCHANGED <<config, queue, done>>
    /\ UNCHANGED stepVars

\* write_text writes the text through its handle; the log keeps the order
\* of the writes
WriteFile(i) ==
    /\ calls[i].pc = "write"
    /\ fs' = write_at_start(fs, SavePath(calls[i].call), calls[i].call.file_content)
    /\ done' = Append(done, i)
    /\ calls' = [calls EXCEPT ![i].pc = "return"]
    /\ UNCHANGED <<config, queue>>
    /\ UNCHANGED stepVars

\* the file is closed and the path returned
Return(i) ==
    /\ calls[i].pc = "return"
    /\ calls' = [calls EXCEPT ![i].pc = "returned"]
    /\ UNCHANGED <<config, fs, queue, done>>
    /\ UNCHANGED stepVars

NextRace ==
    \/ \E i \in DOMAIN calls : MakeDir(i)
    \/ \E i \in DOMAIN calls : OpenFile(i)
    \/ \E i \in DOMAIN calls : WriteFile(i)
    \/ \E i \in DOMAIN calls : Return(i)

SpecRace == InitRace /\ [][NextRace]_vars

-----------------------------------------------------------------------------
(* Specification: compile() line by line, on a file system that can fail *)

\* The call in flight is calls[1].  It keeps the suite it was given, the
\* code of the cases compiled so far, the text of the file once it is
\* formatted, and, as history, the file system it started on, how often it
\* called mkdir and write_text, and the operation that raised.

\* TEST_FILE_TEMPLATE.format(base_url=..., test_cases="\n\n".join(...))
format_file(base_url, tcc) ==
    Format(TEST_FILE_TEMPLATE,
           ("{base_url}" :> base_url) @@ ("{test_cases}" :> Join(tcc, <<"\n", "\n">>)))

\* mutant: the file is formatted and saved as soon as one case is compiled
NextAfterCaseEarly(k, n) == "format"

\* for test_case in test_suite.test_cases: after k of n cases the loop goes
\* on or is left
NextAfterCase(k, n) == IF k < n THEN "cases" ELSE "format"

\* mutant: the exception is caught and the call goes on to return its path
Swallow(call, operation) == [call EXCEPT !.pc = "return", !.failed = operation]

\* an exception raised inside compile() leaves compile(): no statement of
\* compile or of _save_spec_file catches it
Propagate(call, operation) == [call EXCEPT !.pc = "raised", !.failed = operation]

\* a file stands where the directory of the artifacts is to be made
BlockedStore(cfg) ==
    [dirs |-> {<<cfg.storage.test_specs_path>>},
     files |-> (output_dir(cfg) :> <<"not a directory">>)]

\* a directory stands where the artifact of suite s1 is to be written
ShadowedStore(cfg) ==
    [dirs |-> Ancestors(output_path(cfg, <<"s1">>)), files |-> <<>>]

\* calls on suites of no, one and three cases
FaultCalls == [compiler : {"compiler1"}, test_suite : StoreSuites \cup {StaleSuite}]

\* most calls made one after the other on the failing file system
MaxFaultCalls == 2

\* what a write that fails (disk full, quota, I/O error, text that cannot be
\* encoded) has put into the file before it raises: nothing, or a part
WrittenBeforeFailure(data) == {0, Len(data) \div 2}

InitSave ==
    /\ StepIdle
    /\ config = DefaultConfig
    /\ done = <<>>
    /\ calls = <<>>
    /\ fs \in {EmptyStore(config), StaleStore(config), BlockedStore(config),
               ShadowedStore(config)}
    /\ queue \in Strs(FaultCalls, MaxFaultCalls)

\* the caller calls compile(test_suite)
BeginCompile ==
    /\ calls = <<>>
    /\ queue # <<>>
    /\ calls' = << [compiler |-> Head(queue).compiler,
                    test_suite |-> Head(queue).test_suite,
                    given |-> Head(queue).test_suite,
                    pc |-> NextAfterCase(0, Len(Head(queue).test_suite.test_cases)),
                    test_cases_code |-> <<>>,
                    file_content |-> <<>>,
                    fs0 |-> fs,
                    mkdirs |-> 0,
                    writes |-> 0,
                    failed |-> "none"] >>
    /\ queue' = Tail(queue)
    /\ UNCHANGED <<config, fs, done>>
    /\ UNCHANGED stepVars

\* one turn of the loop over the cases
CompileCase ==
    /\ calls # <<>>
    /\ calls[1].pc = "cases"
    /\ LET call == calls[1]
           k == Len(call.test_cases_code)
           r == _compile_test_case(call.test_suite.test_cases[k + 1])
       IN calls' = << IF r.ok
                      THEN [call EXCEPT !.test_cases_code = Append(@, r.val),
                                        !.pc = NextAfterCase(k + 1,
                                                             Len(call.test_suite.test_cases))]
                      ELSE Propagate(call, "compile") >>
    /\ UNCHANGED <<config, fs, queue, done>>
    /\ UNCHANGED stepVars

\* file_content = TEST_FILE_TEMPLATE.format(...)
FormatFile ==
    /\ calls # <<>>
    /\ calls[1].pc = "format"
    /\ LET call == calls[1]
           r == format_file(call.test_suite.base_url, call.test_cases_code)
       IN calls' = << IF r.ok
                      THEN [call EXCEPT !.file_content = r.val, !.pc = "mkdir"]
                      ELSE Propagate(call, "compile") >>
    /\ UNCHANGED <<config, fs, queue, done>>
    /\ UNCHANGED stepVars

\* _save_spec_file: output_dir.mkdir(parents=True, exist_ok=True)
SaveMkdir ==
    /\ calls # <<>>
    /\ calls[1].pc = "mkdir"
    /\ LET call == [calls[1] EXCEPT !.mkdirs = @ + 1]
           r == mkdir(fs, output_dir(config))
       IN /\ fs' = IF r.ok THEN r.val ELSE fs
          /\ calls' = << IF r.ok THEN [call EXCEPT !.pc = "open"]
                         ELSE Propagate(call, "mkdir") >>
    /\ UNCHANGED <<config, queue, done>>
    /\ UNCHANGED stepVars

\* _save_spec_file: output_path.write_text(content) opens the file
SaveOpen ==
    /\ calls # <<>>
    /\ calls[1].pc = "open"
    /\ LET call == [calls[1] EXCEPT !.writes = @ + 1]
           r == open_truncate(fs, output_path(config, call.test_suite.suite_id))
       IN /\ fs' = IF r.ok THEN r.val ELSE fs
          /\ calls' = << IF r.ok THEN [call EXCEPT !.pc = "write"]
                         ELSE Propagate(call, "open") >>
    /\ UNCHANGED <<config, queue, done>>
    /\ UNCHANGED stepVars

\* write_text writes the whole text and closes the file
SaveWrite ==
    /\ calls # <<>>
    /\ calls[1].pc = "write"
    /\ fs' = write_at_start(fs, output_path(config, calls[1].test_suite.suite_id),
                            calls[1].file_content)
    /\ calls' = << [calls[1] EXCEPT !.pc = "return"] >>
    /\ UNCHANGED <<config, queue, done>>
    /\ UNCHANGED stepVars

\* the write raises OSError (or UnicodeEncodeError) on the opened file
SaveWriteFails ==
    /\ calls # <<>>
    /\ calls[1].pc = "write"
    /\ \E k \in WrittenBeforeFailure(calls[1].file_content) :
          fs' = write_at_start(fs, output_path(config, calls[1].test_suite.suite_id),
                               SubSeq(calls[1].file_content, 1, k))
    /\ calls' = << Propagate(calls[1], "write") >>
    /\ UNCHANGED <<config, queue, done>>
    /\ UNCHANGED stepVars

\* the call is over: it returns output_path, or its exception reaches the
\* caller; the log keeps what the caller sees and the history of the call
EndCompile ==
    /\ calls # <<>>
    /\ calls[1].pc \in {"return", "raised"}
    /\ done' = Append(done,
                      [compiler |-> calls[1].compiler,
                       test_suite |-> calls[1].test_suite,
                       given |-> calls[1].given,
                       ok |-> calls[1].pc = "return",
                       output_path |-> IF calls[1].pc = "return"
                                       THEN output_path(config, calls[1].test_suite.suite_id)
                                       ELSE <<>>,
                       file_content |-> calls[1].file_content,
                       failed |-> calls[1].failed,
                       mkdirs |-> calls[1].mkdirs,
                       writes |-> calls[1].writes,
                       fs0 |-> calls[1].fs0,
                       fs1 |-> fs])
    /\ calls' = <<>>
    /\ UNCHANGED <<config, fs, queue>>
    /\ UNCHANGED stepVars

NextSave ==
    \/ BeginCompile
    \/ CompileCase
    \/ FormatFile
    \/ SaveMkdir
    \/ SaveOpen
    \/ SaveWrite
    \/ SaveWriteFails
    \/ EndCompile

SpecSave == InitSave /\ [][NextSave]_vars

-----------------------------------------------------------------------------
(* Specification: one compile_api_tests() call on any list of entries *)

\* the codes of the lookup table, a code the table has and the chain does
\* not use, and a code the table does not have
StatusCodes == {200, 201, 400, 401, 404, 500, 204}

\* most keys of an object of an entry
MaxKeys == 2

\* the objects with at most MaxKeys of the keys id and name, each key once
Objects ==
    {JDict([i \in 1..Len(ks) |-> <<ks[i], <<"a">>>>]) :
        ks \in {q \in Strs({<<"id">>, <<"name">>}, MaxKeys) :
                   \A i, j \in 1..Len(q) : i # j => q[i] # q[j]}}

BodyTypes == {None} \cup {Some(<<t>>) : t \in {"json", "form", "multipart", "xml"}}

\* the header dictionaries with at most MaxKeys headers, each name once
HeaderDicts ==
    {JDict([i \in 1..Len(ks) |->
               <<ks[i], IF ks[i] = <<"Content-Type">> THEN <<"text/plain">> ELSE <<"a">>>>]) :
        ks \in {q \in Strs({<<"Content-Type">>, <<"Authorization">>, <<"X-Id">>}, MaxKeys) :
                   \A i, j \in 1..Len(q) : i # j => q[i] # q[j]}}

\* an object, the word array, another word, an array, an empty array
ExpectedBodies ==
    {None} \cup {Some(o) : o \in Objects}
    \cup {Some(JStr(<<"array">>)), Some(JStr(<<"object">>)),
          Some(JList(<<<<"a">>>>)), Some(JList(<<>>))}

\* (1) entries with any subset of their keys missing
PartialEntries ==
    [method : {None, Some(<<"GET">>), Some(<<"post">>)},
     endpoint : {None, Some(<<"/users">>)},
     expected_status : {None, Some(201)},
     body : {None, Some(JDict(<<<<<<"id">>, <<"a">>>>>>))},
     body_type : {None, Some(<<"form">>)},
     headers : {None, Some(JDict(<<<<<<"Authorization">>, <<"a">>>>>>))},
     expected_body : {None, Some(JDict(<<<<<<"id">>, <<"a">>>>>>))},
     max_response_time_ms : {None, Some(500)},
     name : {None, Some(<<"lists users">>)},
     description : {None, Some(<<"checks the list">>)}]

\* (2) entries over every status code and every expected body
AssertionEntries ==
    [method : {Some(<<"GET">>)}, endpoint : {Some(<<"/users">>)},
     expected_status : {None} \cup {Some(c) : c \in StatusCodes},
     body : {None}, body_type : {None}, headers : {None},
     expected_body : ExpectedBodies,
     max_response_time_ms : {None, Some(0), Some(500)},
     name : {None}, description : {None}]

\* (3) entries over every body, body type and header dictionary
RequestEntries ==
    [method : {Some(<<"post">>)}, endpoint : {Some(<<"/users">>)},
     expected_status : {Some(201)},
     body : {None} \cup {Some(o) : o \in Objects},
     body_type : BodyTypes,
     headers : {None} \cup {Some(h) : h \in HeaderDicts},
     expected_body : {None}, max_response_time_ms : {None},
     name : {None, Some(<<"lists users">>)}, description : {None}]

ApiEntries == PartialEntries \cup AssertionEntries \cup RequestEntries

\* two entries that differ in every key
FirstEntry ==
    [method |-> Some(<<"GET">>), endpoint |-> Some(<<"/users">>),
     expected_status |-> None, body |-> None, body_type |-> None, headers |-> None,
     expected_body |-> Some(JStr(<<"array">>)), max_response_time_ms |-> None,
     name |-> Some(<<"lists users">>), description |-> None]

SecondEntry ==
    [method |-> Some(<<"post">>), endpoint |-> None,
     expected_status |-> Some(201),
     body |-> Some(JDict(<<<<<<"id">>, <<"a">>>>>>)), body_type |-> None,
     headers |-> None, expected_body |-> None, max_response_time_ms |-> None,
     name |-> None, description |-> None]

\* calls on lists of one entry, and on lists over the two entries
ApiCalls ==
    [api_tests : {<<t>> : t \in ApiEntries} \cup Strs({FirstEntry, SecondEntry}, MaxCases + 1),
     base_url : BaseUrls, suite_id : {<<"s1">>}]

InitApi ==
    /\ StepIdle
    /\ config = DefaultConfig
    /\ done = <<>>
    /\ calls = <<>>
    /\ fs = EmptyStore(config)
    /\ queue \in {<<c>> : c \in ApiCalls}

\* the call runs from its first line to its return; the log keeps what it
\* was given, the code of each entry and what it returned
CompileApiTests ==
    /\ queue # <<>>
    /\ LET call == Head(queue)
           r == compile_api_tests(config, fs, call.api_tests, call.base_url, call.suite_id)
       IN /\ fs' = IF r.ok THEN r.val.fs ELSE fs
          /\ done' = Append(done,
                            [api_tests |-> call.api_tests, base_url |-> call.base_url,
                             suite_id |-> call.suite_id,
                             ok |-> r.ok,
                             test_cases_code |-> IF r.ok THEN r.val.test_cases_code ELSE <<>>,
                             output_path |-> IF r.ok THEN r.val.output_path ELSE <<>>,
                             file_content |-> IF r.ok THEN r.val.file_content ELSE <<>>])
    /\ queue' = Tail(queue)
    /\ UNCHANGED <<config, calls>>
    /\ UNCHANGED stepVars

NextApi == CompileApiTests

SpecApi == InitApi /\ [][NextApi]_vars

-----------------------------------------------------------------------------
(* Reading a compiled fragment *)

\* the action code of a fragment: what follows the comment line
RECURSIVE StatementOf(_)
StatementOf(frag) ==
    IF frag = <<>> THEN <<>>
    ELSE IF Head(frag) = "\n" THEN Tail(frag)
    ELSE StatementOf(Tail(frag))

IsStatement(code) == StartsWith(code, "    await ")

DiagnosticHeads == {"    // SKIPPED: ", "    // Unsupported action: "}

IsDiagnostic(code) == code # <<>> /\ code[1] \in DiagnosticHeads

HasInfix(s, t) ==
    \E i \in 0..(Len(s) - Len(t)) : SubSeq(s, i + 1, i + Len(t)) = t

\* The single-quoted string literals of a line of TypeScript, as its lexer
\* finds them: a quote opens a literal, a backslash inside a literal takes the
\* next character with it, the next quote not so taken closes the literal.
\* lits are the texts between the quotes; open says that the line ends
\* inside a literal.
RECURSIVE Lex(_, _, _, _)
Lex(s, inside, cur, acc) ==
    IF s = <<>> THEN [lits |-> acc, open |-> inside]
    ELSE IF ~inside
    THEN Lex(Tail(s), Head(s) = "'", <<>>, acc)
    ELSE IF Head(s) = "\\"
    THEN (IF Len(s) >= 2
          THEN Lex(Tail(Tail(s)), TRUE, cur \o <<s[1], s[2]>>, acc)
          ELSE [lits |-> acc, open |-> TRUE])
    ELSE IF Head(s) = "'"
    THEN Lex(Tail(s), FALSE, <<>>, Append(acc, cur))
    ELSE Lex(Tail(s), TRUE, Append(cur, Head(s)), acc)

Literals(code) == Lex(code, FALSE, <<>>, <<>>)

\* the value-free assertion kinds
ValueFreeKinds ==
    { <<"toBeVisible">>, <<"toBeHidden">>, <<"toBeEnabled">>, <<"toBeDisabled">>,
      <<"toBeChecked">>, <<"toBeEditable">>, <<"toBeEmpty">>, <<"toBeFocused">>,
      <<"toBeAttached">>, <<"toBeInViewport">> }

\* the selector is the title sentinel, in some letter case
IsTitleSentinel(o) == o # None /\ o[1] \in TitleSelectors

LocatorHeads == {"page.getByTestId(", "page.getByLabel(", "page.getByText(", "page.locator("}

-----------------------------------------------------------------------------
(* Claims about _compile_step, under Spec *)

RequiredFieldMissing(st) ==
    \/ st.action \in {"click", "submit", "hover", "check", "uncheck"} /\ ~Truthy(st.selector)
    \/ st.action \in {"fill", "select"} /\ (~Truthy(st.selector) \/ ~Truthy(st.value))
    \/ st.action \in {"goto", "navigate"} /\ ~Truthy(st.url) /\ ~Truthy(st.value)

\* C2: a step that lacks a field its action requires compiles to a
\* diagnostic comment and to no executable statement.
C2_MissingFieldGivesComment ==
    (pc = "compiled" /\ RequiredFieldMissing(step))
        => /\ IsDiagnostic(StatementOf(result.val))
           /\ ~Contains(result.val, "    await ")

\* the texts the step compiler puts between the quotes of a statement: the
\* escaped and normalized selector, then the value
EmbeddedTexts(st) ==
    (IF Truthy(st.selector)
     THEN <<_normalize_selector(replace_quote(st.selector[1]))>>
     ELSE <<>>)
    \o (IF st.action \in {"fill", "select"} THEN <<OrElse(st.value, <<>>)>>
        ELSE IF st.action = "expect" /\ Truthy(st.value)
                /\ OrElse(st.assertion, <<"toBeVisible">>) \notin ValueFreeKinds
        THEN <<replace_quote(st.value[1])>>
        ELSE <<>>)

\* C3: in every statement emitted for click, fill, select, hover, check,
\* uncheck, submit and expect on a selector or a value that holds a quote
\* character, each single-quoted literal ends at the quote
\* the template closes it with: the literals the lexer finds are exactly the
\* embedded selector and value, and the line does not end inside a literal.
C3_QuotesNeverCloseLiteralEarly ==
    (/\ pc = "compiled"
     /\ step.action \in LiteralActions
     /\ \/ Truthy(step.selector) /\ Contains(step.selector[1], "'")
        \/ Truthy(step.value) /\ Contains(step.value[1], "'")
     /\ ~IsTitleSentinel(step.selector)
     /\ IsStatement(StatementOf(result.val)))
        => /\ ~Literals(StatementOf(result.val)).open
           /\ Literals(StatementOf(result.val)).lits = EmbeddedTexts(step)

\* C4: the value of a fill or select step is embedded with each quote
\* escaped, as the value of an expect step is.
C4_FillValueEscaped ==
    (pc = "compiled" /\ step.action \in {"fill", "select"} /\ Truthy(step.value))
        => EndsWith(result.val, <<"(", "'">> \o replace_quote(step.value[1]) \o <<"'", ");">>)

\* the argument list of a value-free assertion: empty, or the timeout option
ValueFreeCall(st) ==
    <<".">> \o st.assertion[1] \o <<"(">> \o TimeoutOption(st) \o <<");">>

\* C6 as stated: an expect step with a value-free assertion kind carries no
\* comparison literal, for every selector, the title sentinel included: the
\* fragment is a comment, or the argument list of its call is empty or holds
\* the timeout option only.
C6_ValueFreeNoLiteralAnySelector ==
    (/\ pc = "compiled" /\ step.action = "expect"
     /\ step.assertion # None /\ step.assertion[1] \in ValueFreeKinds)
        => \/ IsDiagnostic(StatementOf(result.val))
           \/ EndsWith(result.val, <<"(">> \o TimeoutOption(step) \o <<");">>)

\* C6 as amended: an expect step with a value-free assertion kind whose
\* selector is not the title sentinel carries no comparison literal, with or
\* without a value: its argument list is empty or holds the timeout option.
C6_ValueFreeNoLiteral ==
    (/\ pc = "compiled" /\ step.action = "expect"
     /\ step.assertion # None /\ step.assertion[1] \in ValueFreeKinds
     /\ ~IsTitleSentinel(step.selector))
        => /\ IsStatement(StatementOf(result.val))
           /\ EndsWith(result.val, ValueFreeCall(step))

C6_Witness ==
    /\ pc = "compiled" /\ step.action = "expect"
    /\ step.assertion = Some(<<"toBeEmpty">>)
    /\ Truthy(step.selector) /\ ~IsTitleSentinel(step.selector)
    /\ Truthy(step.value)

\* the expect step names an assertion kind that takes a value
TakesValue(st) ==
    st.action = "expect" /\ Truthy(st.assertion) /\ st.assertion[1] \notin ValueFreeKinds

\* the diagnostic comment of a missing value names the assertion kind and no
\* expect statement is emitted
SkippedNaming(code, assertion) ==
    /\ IsDiagnostic(code)
    /\ HasInfix(code, assertion)
    /\ ~Contains(code, "expect(")

\* the timeout option as a further argument
TimeoutArgument(st) == IF Truthy(st.timeout) THEN <<", ">> \o TimeoutOption(st) ELSE <<>>

\* C7 as stated: an expect step whose assertion kind takes a value embeds
\* the escaped value as its one comparison argument (as a quoted literal or
\* as a pattern) when the value is present, and is a diagnostic comment
\* naming the assertion when the value is absent or empty.
C7_ValueRequiredAnySelector ==
    (pc = "compiled" /\ TakesValue(step))
        => IF Truthy(step.value)
           THEN /\ IsStatement(StatementOf(result.val))
                /\ \E q \in {"'", "/"} :
                      EndsWith(result.val, <<"(", q>> \o replace_quote(step.value[1]) \o <<q>>
                                           \o TimeoutArgument(step) \o <<");">>)
           ELSE SkippedNaming(StatementOf(result.val), step.assertion[1])

\* C7 as amended: the same for every selector but the title sentinel, with
\* the value in a single-quoted literal.
C7_ValueRequired ==
    (pc = "compiled" /\ TakesValue(step) /\ ~IsTitleSentinel(step.selector))
        => IF Truthy(step.value)
           THEN /\ IsStatement(StatementOf(result.val))
                /\ EndsWith(result.val, <<".">> \o step.assertion[1] \o <<"(", "'">>
                                        \o replace_quote(step.value[1]) \o <<"'">>
                                        \o TimeoutArgument(step) \o <<");">>)
           ELSE SkippedNaming(StatementOf(result.val), step.assertion[1])

C7_Witness ==
    /\ pc = "compiled" /\ TakesValue(step) /\ ~IsTitleSentinel(step.selector)
    /\ ~Truthy(step.value)
    /\ Truthy(step.selector)

\* C8: an expect step on the title sentinel, in any letter case, compiles
\* with a value to the document-title assertion on page with the value as
\* pattern, and no locator; without a value to a diagnostic comment and no
\* assertion.
C8_TitleSentinel ==
    (pc = "compiled" /\ step.action = "expect" /\ IsTitleSentinel(step.selector))
        => IF Truthy(step.value)
           THEN /\ StatementOf(result.val)
                     = <<"    await ", "expect(", "page", ")", ".", "toHaveTitle", "(", "/">>
                       \o replace_quote(step.value[1]) \o <<"/", ");">>
                /\ \A h \in LocatorHeads : ~Contains(result.val, h)
           ELSE /\ IsDiagnostic(StatementOf(result.val))
                /\ ~Contains(result.val, "expect(")

C8_Witness ==
    /\ pc = "compiled" /\ step.action = "expect"
    /\ step.selector = Some(<<"TITLE">>)
    /\ Truthy(step.value)

-----------------------------------------------------------------------------
(* Claims about _generate_selector, under SpecSel *)

\* the strategy a locator was built with, read off the locator
StrategyOfLocator(loc) ==
    CASE loc[1] = "page.getByTestId(" -> "test-id"
      [] loc[1] = "page.getByLabel(" -> "aria-label"
      [] loc[1] = "page.getByText(" -> "text"
      [] loc[1] = "page.locator(" /\ EndsWith(loc, <<".first()">>) -> "css"
      [] OTHER -> "xpath"

\* the declared strategy, or the inferred one when none is declared
ResolvedStrategy(st) ==
    IF StrategyFalsy(st.selector_strategy)
    THEN _infer_selector_strategy(_normalize_selector(st.selector[1]))
    ELSE st.selector_strategy

\* C5: the locator carries the .first() qualifier whenever the effective
\* strategy is text or css, and never when it is test-id or xpath.
C5_FirstMatchQualifier ==
    pc = "located"
        => /\ result.ok
           /\ ResolvedStrategy(step) \in {"text", "css"}
                 => EndsWith(result.val, <<"'", ")", ".first()">>)
           /\ ResolvedStrategy(step) \in {"test-id", "xpath"}
                 => ~Contains(result.val, ".first()")

C5_Witness ==
    /\ pc = "located"
    /\ StrategyFalsy(step.selector_strategy)
    /\ ResolvedStrategy(step) = "xpath"

\* the strategy the inference rule gives a normalized selector
RuleStrategy(n) ==
    IF StartsWith(n, "[data-testid") THEN "test-id"
    ELSE IF StartsWith(n, "[aria-label") THEN "aria-label"
    ELSE IF StartsWith(n, "//") THEN "xpath"
    ELSE IF n # <<>> /\ \A i \in 1..Len(n) : n[i] \in Letters \cup Whitespace THEN "text"
    ELSE "css"

\* C9: with no declared strategy the locator is the one of the strategy the
\* rule gives the normalized selector: test-id, else aria-label, else xpath,
\* else text, else css.
C9_InferredStrategy ==
    (pc = "located" /\ StrategyFalsy(step.selector_strategy))
        => /\ result.ok
           /\ StrategyOfLocator(result.val) = RuleStrategy(_normalize_selector(step.selector[1]))

C9_Witness ==
    /\ pc = "located"
    /\ StrategyFalsy(step.selector_strategy)
    /\ StartsWith(step.selector[1], "text=")
    /\ StrategyOfLocator(result.val) = "xpath"

\* C10: a declared strategy that is none of the five gives the css locator
\* template applied to the (normalized) selector, with the .first()
\* qualifier, and no exception.
C10_UnknownStrategyFallsBackToCss ==
    (/\ pc = "located"
     /\ ~StrategyFalsy(step.selector_strategy)
     /\ step.selector_strategy \notin SelectorStrategies)
        => /\ result.ok
           /\ result.val
                = Format(SELECTOR_TEMPLATES("css"),
                         "{selector}" :> _normalize_selector(step.selector[1])).val
                  \o <<".first()">>

C10_Witness ==
    /\ pc = "located"
    /\ step.selector_strategy = "role"
    /\ Contains(step.selector[1], "'")

-----------------------------------------------------------------------------
(* Further claims about _compile_step, under Spec *)

\* the three notations of a text selector for the text X
TextNotations(X) ==
    { <<"a:text(", "'">> \o X \o <<"'", ")">>,
      <<"a:text(", "\"">> \o X \o <<"\"", ")">>,
      <<"text=">> \o X }

\* C11: a step whose selector is written a:text('X'), a:text("X") or text=X
\* compiles to a statement whose locator embeds the plain text X, and with
\* no declared strategy the locator is the text lookup for X.
C11_TextNotationsRewritten ==
    \A X \in {<<"a">>} :
        (/\ pc = "compiled" /\ step.action \in LiteralActions
         /\ Truthy(step.selector) /\ step.selector[1] \in TextNotations(X)
         /\ IsStatement(StatementOf(result.val)))
            => /\ Literals(StatementOf(result.val)).lits # <<>>
               /\ Literals(StatementOf(result.val)).lits[1] = X
               /\ step.selector_strategy = NoStrategy
                     => HasInfix(result.val, <<"page.getByText(", "'">> \o X \o <<"'", ")">>)

\* the target of a navigation step: url, or value when url is absent
NavigationTarget(st) == OrElse(st.url, OrElse(st.value, <<>>))

\* C12: a goto step and a navigate step alike compile to the single
\* statement page.goto on step.url, or on step.value when url is absent.
C12_NavigationTargetsUrl ==
    (pc = "compiled" /\ step.action \in {"goto", "navigate"})
        => StatementOf(result.val)
             = <<"    await ", "page.goto(", "'">> \o NavigationTarget(step) \o <<"'", ");">>

\* the text of the traceability comment: the description, or the action
\* name when the description is absent or empty
TraceText(st) == IF Truthy(st.description) THEN st.description[1] ELSE <<st.action>>

\* C14: every fragment, whatever the action, begins with the traceability
\* comment // Step <n>: <text>.
C14_EveryFragmentTraceable ==
    pc = "compiled"
        => LET head == <<"    // Step ", ToString(step_number), ": ">> \o TraceText(step)
           IN /\ Len(result.val) >= Len(head)
              /\ SubSeq(result.val, 1, Len(head)) = head

-----------------------------------------------------------------------------
(* Reading a compiled file *)

\* the positions of the line ends of a text
LineEnds(text) == SelectSeq([i \in 1..Len(text) |-> i], LAMBDA i : text[i] = "\n")

\* the lines of a text: what is before, between and after its line ends
LinesOf(text) ==
    LET ends == LineEnds(text)
    IN [j \in 1..(Len(ends) + 1) |->
           SubSeq(text,
                  IF j = 1 THEN 1 ELSE ends[j - 1] + 1,
                  IF j = Len(ends) + 1 THEN Len(text) ELSE ends[j] - 1)]

\* the numbers of the lines that open a test block
BlockHeads(lines) ==
    SelectSeq([i \in 1..Len(lines) |-> i], LAMBDA i : StartsWith(lines[i], "  test("))

\* the lines of the k-th test block: from its head to the first line that
\* closes a block
BlockLines(lines, k) ==
    LET head == BlockHeads(lines)[k]
        closers == {i \in head..Len(lines) : lines[i] = <<"  });">>}
    IN SubSeq(lines, head, IF closers = {} THEN Len(lines)
                           ELSE CHOOSE i \in closers : \A j \in closers : i <= j)

\* the lines up to the first empty line
RECURSIVE Paragraph(_)
Paragraph(ls) ==
    IF ls = <<>> \/ Head(ls) = <<>> THEN <<>> ELSE <<Head(ls)>> \o Paragraph(Tail(ls))

RECURSIVE SkipBlank(_)
SkipBlank(ls) == IF ls # <<>> /\ Head(ls) = <<>> THEN SkipBlank(Tail(ls)) ELSE ls

\* a block is its head, its description, an empty line, the step
\* fragments, empty lines, and its closing lines
StepLines(block) == Paragraph(SubSeq(block, 4, Len(block)))

ClosingLines(block) ==
    Paragraph(SkipBlank(SubSeq(block, 4 + Len(StepLines(block)), Len(block))))

\* the line opens a step fragment: the traceability comment of a compiled
\* step, or the comment that stands for a step with no template
OpensFragment(line) ==
    StartsWith(line, "    // Step ") \/ StartsWith(line, "    // Unsupported action: ")

\* what the fragments of a block say about their steps, in order: the step
\* number of a compiled step, the action of a step with no template
FragmentLabels(block) ==
    LET opening == SelectSeq(StepLines(block), OpensFragment)
    IN [i \in 1..Len(opening) |-> opening[i][2]]

\* the same read off the steps of the case
StepLabels(steps) ==
    [i \in 1..Len(steps) |->
        IF steps[i].action \in TemplateActions THEN ToString(i) ELSE steps[i].action]

\* the lines the fragments of the steps take: the comment and the statement
\* of a compiled step, the one comment of a step with no template
FragmentLineCount(steps) ==
    Len(steps) + Cardinality({i \in 1..Len(steps) : steps[i].action \in TemplateActions})

\* a step of the case has an action with no template
HasUnsupportedStep(case) ==
    \E i \in 1..Len(case.steps) : case.steps[i].action \notin TemplateActions

-----------------------------------------------------------------------------
(* Claims about compile(), under SpecCompile *)

\* C13: when a compile call returns, in a case that has a step whose action
\* has no template that step is compiled to a comment naming the action and
\* nothing else, and every step of the case, the later ones included, has
\* its fragment in the block, in step order.
C13_UnsupportedStepDoesNotStopTheCase ==
    \A c \in {Len(done)} \ {0} :
        /\ done[c].ok
        /\ LET cases == done[c].test_suite.test_cases
               lines == LinesOf(done[c].file_content)
           IN \A k \in 1..Len(cases) :
                 HasUnsupportedStep(cases[k])
                    => /\ k <= Len(BlockHeads(lines))
                       /\ FragmentLabels(BlockLines(lines, k)) = StepLabels(cases[k].steps)
                       /\ Len(StepLines(BlockLines(lines, k)))
                             = FragmentLineCount(cases[k].steps)
                       /\ \A l \in 1..Len(StepLines(BlockLines(lines, k))) :
                             LET line == StepLines(BlockLines(lines, k))[l]
                             IN StartsWith(line, "    // Unsupported action: ")
                                   => Len(line) = 2

C13_Witness ==
    /\ done # <<>>
    /\ done[1].ok
    /\ \E k \in 1..Len(done[1].test_suite.test_cases) :
          LET steps == done[1].test_suite.test_cases[k].steps
          IN /\ Len(steps) = MaxSteps
             /\ steps[1].action = "drag"
             /\ steps[2].action = "click"
             /\ steps[3].action = "expect"

\* the lines of the setup hook
SetupHook(base_url) ==
    << <<"  test.beforeEach(", "async ({ page }) => {">>,
       <<"    await ", "page.goto(", "'">> \o base_url \o <<"'", ");">>,
       <<"  });">> >>

\* the comments of the free-text assertions, or the one that says there are
\* none, and the line that closes the block
ClosingOf(case) ==
    (IF case.assertions = <<>>
     THEN <<<<"    // No explicit assertions">>>>
     ELSE [i \in 1..Len(case.assertions) |-> <<"    // Assert: ">> \o case.assertions[i]])
    \o <<<<"  });">>>>

CallsFor(suite_id) == {c \in 1..Len(done) : done[c].test_suite.suite_id = suite_id}

\* the last of them
LastCallFor(suite_id) == CHOOSE c \in CallsFor(suite_id) : \A d \in CallsFor(suite_id) : d <= c

\* C17: after any sequence of compile calls each call has succeeded, the
\* directory of the artifacts exists, the artifact of a suite id is exactly
\* the text of the last call made for that id, a file no call was made for
\* is as it was, and a call that repeats the call before it changes
\* nothing.
C17_LastCompileOverwrites ==
    /\ \A c \in 1..Len(done) :
          /\ done[c].ok
          /\ SubSeq(done[c].output_path, 1, Len(done[c].output_path) - 1) \in fs.dirs
          /\ fs.files[done[c].output_path]
                = done[LastCallFor(done[c].test_suite.suite_id)].file_content
          /\ (c > 1 /\ done[c].test_suite = done[c - 1].test_suite) => ~done[c].changed
    /\ \A q \in DOMAIN fs.files :
          (\A c \in 1..Len(done) : done[c].output_path # q)
              => /\ q \in DOMAIN StaleStore(config).files
                 /\ fs.files[q] = StaleStore(config).files[q]

\* a short suite is compiled over the longer artifact an earlier version
\* left, and over the longer artifact of an earlier call
C17_Witness ==
    /\ Len(done) = MaxCalls
    /\ done[1].test_suite.suite_id = <<"s1">>
    /\ done[1].test_suite.test_cases # <<>>
    /\ done[2].test_suite.suite_id = <<"s1">>
    /\ done[2].test_suite.test_cases = <<>>
    /\ done[3].test_suite.suite_id = <<"s2">>
    /\ Len(fs.files[done[2].output_path]) < Len(done[1].file_content)

-----------------------------------------------------------------------------
(* Claims about concurrent compile calls, under SpecRace *)

AllReturned == \A i \in DOMAIN calls : calls[i].pc = "returned"

\* C18: when compile calls for pairwise different suite ids, of the UI
\* compiler and of the API compiler alike, have run at the same time and
\* all have returned, the artifact of each call is the text that call
\* wrote.
C18_DifferentIdsAreIndependent ==
    (/\ AllReturned
     /\ \A i, j \in DOMAIN calls : i # j => calls[i].call.suite_id # calls[j].call.suite_id)
        => \A i \in DOMAIN calls :
              fs.files[SavePath(calls[i].call)] = calls[i].call.file_content

\* C19: when two calls of the UI compiler for the same suite id have run at
\* the same time and both have returned, the artifact is the whole text of
\* the call that wrote last.
C19_LastWriterWins ==
    \A i, j \in DOMAIN calls :
        (/\ AllReturned /\ i # j
         /\ calls[i].call.compiler = "TestCompiler"
         /\ calls[j].call.compiler = "TestCompiler"
         /\ calls[i].call.suite_id = calls[j].call.suite_id
         /\ done[Len(done)] = i)
            => fs.files[SavePath(calls[i].call)] = calls[i].call.file_content

\* C20: the path a TestCompiler call returns is never the path an
\* APITestCompiler call returns, whatever their suite ids.
C20_CompilersUseSeparatePaths ==
    \A i, j \in DOMAIN calls :
        (/\ calls[i].pc = "returned" /\ calls[j].pc = "returned"
         /\ calls[i].call.compiler = "TestCompiler"
         /\ calls[j].call.compiler = "APITestCompiler")
            => SavePath(calls[i].call) # SavePath(calls[j].call)

-----------------------------------------------------------------------------
(* Claims about compile() on a file system that can fail, under SpecSave *)

\* C21: a compile call in which making the output directory or writing the
\* file raised does not return a path: the exception reaches the caller, the
\* call stopped at the operation that raised and made each of mkdir and
\* write_text at most once; and a call that returns a path had no failure.
C21_FileSystemFailurePropagates ==
    \A c \in 1..Len(done) :
        /\ done[c].failed \in {"mkdir", "open", "write"}
              => /\ ~done[c].ok
                 /\ done[c].output_path = <<>>
                 /\ done[c].mkdirs = 1
                 /\ done[c].writes = (IF done[c].failed = "mkdir" THEN 0 ELSE 1)
        /\ done[c].ok
              => /\ done[c].failed = "none"
                 /\ done[c].output_path # <<>>

\* a call fails at mkdir, a call fails at the write
C21_Witness ==
    /\ Len(done) = 2
    /\ \E c \in 1..2 : done[c].failed = "write"
    /\ \E c \in 1..2 : done[c].failed \in {"mkdir", "open"}

-----------------------------------------------------------------------------
(* Claims about the assertion dispatch of _compile_step, under Spec *)

\* the assertion kinds of the explored steps that are assertion names of the
\* test library
RecognisedKinds == ValueFreeKinds \cup {<<"toHaveText">>, <<"toHaveValue">>}

\* the expect step names an assertion kind that is no assertion name
UnknownKind(st) ==
    st.action = "expect" /\ Truthy(st.assertion) /\ st.assertion[1] \notin RecognisedKinds

\* C22: an expect step whose assertion kind is unknown compiles, with or
\* without a value, to a diagnostic comment and to no assertion statement.
C22_UnknownAssertionGivesComment ==
    (pc # "start" /\ UnknownKind(step))
        => /\ pc = "compiled"
           /\ IsDiagnostic(StatementOf(result.val))
           /\ ~Contains(result.val, "expect(")

-----------------------------------------------------------------------------
(* Reading the test block of an API entry *)

\* the number of the first line of the block that closes the request
RequestEnd(lines) == CHOOSE i \in 1..Len(lines) :
                        /\ lines[i] = <<"    });">>
                        /\ \A j \in 1..(i - 1) : lines[j] # <<"    });">>

\* the lines of the request options: between the line that opens the
\* request and the line that closes it
OptionLines(lines) == SubSeq(lines, 5, RequestEnd(lines) - 1)

\* the lines of the assertions: after the request and the line that
\* follows it, up to the line that closes the block
ApiAssertionLines(lines) == SubSeq(lines, RequestEnd(lines) + 2, Len(lines) - 1)

IsStatusAssertion(line) == StartsWith(line, "    expect(response.status()).toBe(")

\* the code the entry expects
ExpectedCode(test) == IF test.expected_status = None THEN 200 ELSE test.expected_status[1]

\* the codes the selection looks up, and the key of each
TableCodes == {200, 201, 400, 401, 404}

TableKey(code) ==
    CASE code = 200 -> "status_200"
      [] code = 201 -> "status_201"
      [] code = 400 -> "status_400"
      [] code = 401 -> "status_401"
      [] code = 404 -> "status_404"

IsPrefix(p, s) == Len(p) <= Len(s) /\ SubSeq(s, 1, Len(p)) = p

-----------------------------------------------------------------------------
(* Claims about _compile_api_test, under SpecApi *)

\* C23: the block of every entry holds exactly one assertion on
\* response.status(), which compares it with the expected code (200 when
\* the entry has none); the assertions begin with the entry of the lookup
\* table when the code is 200, 201, 400, 401 or 404 and with the direct
\* equality on the code otherwise.
C23_OneStatusAssertion ==
    \A c \in 1..Len(done) :
        /\ done[c].ok
        /\ \A k \in 1..Len(done[c].api_tests) :
              LET test == done[c].api_tests[k]
                  code == ExpectedCode(test)
                  lines == ApiAssertionLines(LinesOf(done[c].test_cases_code[k]))
              IN /\ SelectSeq(LinesOf(done[c].test_cases_code[k]), IsStatusAssertion)
                       = << <<"    expect(response.status()).toBe(", ToString(code), ");">> >>
                 /\ IF code \in TableCodes
                    THEN IsPrefix(LinesOf(API_ASSERTIONS(TableKey(code))), lines)
                    ELSE lines[1] = <<"    expect(response.status()).toBe(",
                                      ToString(code), ");">>

\* a code the lookup does not cover, with further assertions after it
C23_Witness ==
    /\ done # <<>>
    /\ done[1].api_tests # <<>>
    /\ done[1].api_tests[1].expected_status = Some(500)
    /\ JTruthy(done[1].api_tests[1].expected_body)

\* the has-property check on a key
HasPropertyCheck(key) == <<"    expect(body).toHaveProperty(", "'">> \o key \o <<"'", ");">>

IsHasPropertyCheck(line) == StartsWith(line, "    expect(body).toHaveProperty(")

\* the two lines of the non-empty-array check
ArrayCheck ==
    << <<"    expect(Array.isArray(body)).toBeTruthy();">>,
       <<"    expect(body.length).toBeGreaterThan(0);">> >>

IsArrayCheck(line) == \E i \in 1..Len(ArrayCheck) : line = ArrayCheck[i]

\* the expectation is an array, or the word that stands for one
ArrayShaped(value) == value.type = "list" \/ value = JStr(<<"array">>)

\* C24: in the block of an entry with an expected body, an object
\* expectation gives one has-property check for each of its keys, in order,
\* and none for another name; an array-shaped expectation gives one
\* non-empty-array check.
C24_BodyAssertionsFollowShape ==
    \A c \in 1..Len(done) :
        \A k \in 1..Len(done[c].api_tests) :
            LET test == done[c].api_tests[k]
                lines == ApiAssertionLines(LinesOf(done[c].test_cases_code[k]))
            IN JTruthy(test.expected_body)
                  => /\ test.expected_body[1].type = "dict"
                          => SelectSeq(lines, IsHasPropertyCheck)
                                = [i \in 1..Len(test.expected_body[1].items) |->
                                      HasPropertyCheck(test.expected_body[1].items[i][1])]
                     /\ ArrayShaped(test.expected_body[1])
                          => SelectSeq(lines, IsArrayCheck) = ArrayCheck

\* the option the body of the entry is sent as
BodyOption(test) ==
    CASE test.body_type = Some(<<"form">>) -> "      form: "
      [] test.body_type = Some(<<"multipart">>) -> "      multipart: "
      [] OTHER -> "      data: "

\* the line of a header in the headers block
HeaderLine(name, value) ==
    <<"        ", "'">> \o name \o <<"'", ": ", "'">> \o value \o <<"'", ",">>

\* the line names the header
NamesHeader(line, name) == IsPrefix(<<"        ", "'">> \o name \o <<"'">>, line)

\* the positions of the lines that name the header
HeaderPositions(ls, name) == {i \in 1..Len(ls) : NamesHeader(ls[i], name)}

\* C25: in the request options of the block of an entry, the body, when the
\* entry has one, is the dumped body under the option of its body type
\* (data for json and for an absent or unknown type, form, multipart), and
\* no body line is there otherwise; when the entry has headers the headers
\* block follows, with one Content-Type line holding the value of the
\* dictionary (application/json when it has none) and after it one line for
\* every other header; without headers there is no headers block.
C25_BodyAndHeadersRendered ==
    \A c \in 1..Len(done) :
        \A k \in 1..Len(done[c].api_tests) :
            LET test == done[c].api_tests[k]
                opts == OptionLines(LinesOf(done[c].test_cases_code[k]))
                body_lines == IF JTruthy(test.body)
                              THEN LinesOf(<<BodyOption(test)>> \o json_dumps(test.body[1]))
                              ELSE << <<>> >>
                header_lines == SubSeq(opts, Len(body_lines) + 1, Len(opts))
            IN /\ IsPrefix(body_lines, opts)
               /\ IF JTruthy(test.headers)
                  THEN LET items == test.headers[1].items
                           content_type == DictGet(items, <<"Content-Type">>,
                                                   <<"application/json">>)
                       IN /\ header_lines[1] = <<"      headers: {">>
                          /\ header_lines[Len(header_lines)] = <<"      }">>
                          /\ HeaderPositions(header_lines, <<"Content-Type">>) = {2}
                          /\ header_lines[2] = HeaderLine(<<"Content-Type">>, content_type)
                          /\ \A i \in 1..Len(items) :
                                items[i][1] # <<"Content-Type">>
                                   => \E p \in 3..Len(header_lines) :
                                         /\ HeaderPositions(header_lines, items[i][1]) = {p}
                                         /\ header_lines[p]
                                               = HeaderLine(items[i][1], items[i][2])
                  ELSE header_lines = << <<>> >>

\* a body of an unknown type, with a Content-Type header and another header
C25_Witness ==
    /\ done # <<>>
    /\ done[1].api_tests # <<>>
    /\ LET test == done[1].api_tests[1]
       IN /\ JTruthy(test.body)
          /\ test.body_type = Some(<<"xml">>)
          /\ JTruthy(test.headers)
          /\ Len(test.headers[1].items) = MaxKeys
          /\ test.headers[1].items[2][1] = <<"Content-Type">>

-----------------------------------------------------------------------------
(* Claims about the fields _compile_step consults, under Spec *)

\* other values of the fields of a step
OtherSelectors == {None, Some(<<"'">>), Some(<<"title">>), Some(<<"#", "a">>)}
OtherStrategies == {NoStrategy, "text", "test-id", "role"}
OtherAssertions == {None, Some(<<"toBeVisible">>), Some(<<"toHaveText">>)}
OtherUrls == {None, Some(<<"/home">>)}
OtherDescriptions == {None, Some(<<"Open", " ", "page">>)}

\* the statement the step compiler gives another step
StatementFor(st) == StatementOf(_compile_step(st, step_number).val)

\* a goto step that agrees with the compiled one on url and value, with any
\* selector, strategy and assertion, has the same statement
GotoConsultsUrlAndValue ==
    (pc = "compiled" /\ step.action = "goto")
        => \A s \in OtherSelectors, g \in OtherStrategies, a \in OtherAssertions :
              StatementFor([step EXCEPT !.selector = s, !.selector_strategy = g,
                                        !.assertion = a])
                 = StatementOf(result.val)

\* the statement of go_back and of reload is fixed and holds no locator
FixedStatements ==
    /\ (pc = "compiled" /\ step.action = "go_back")
          => /\ StatementOf(result.val) = <<"    await ", "page.goBack();">>
             /\ \A h \in LocatorHeads : ~Contains(result.val, h)
    /\ (pc = "compiled" /\ step.action = "reload")
          => /\ StatementOf(result.val) = <<"    await ", "page.reload();">>
             /\ \A h \in LocatorHeads : ~Contains(result.val, h)

\* C26 as stated: the statement depends only on the fields of its action:
\* for goto on url and value; for go_back and reload on nothing; for expect
\* on selector, assertion and value, so that an expect step that agrees with
\* the compiled one on these three has the same statement whatever its
\* strategy, timeout, url and description.
C26_FieldRelevance ==
    /\ GotoConsultsUrlAndValue
    /\ FixedStatements
    /\ (pc = "compiled" /\ step.action = "expect")
          => \A g \in OtherStrategies, t \in Timeouts, u \in OtherUrls,
                d \in OtherDescriptions :
                StatementFor([step EXCEPT !.selector_strategy = g, !.timeout = t,
                                          !.url = u, !.description = d])
                   = StatementOf(result.val)

\* C26 as amended: the same, with selector_strategy and timeout among the
\* fields of expect: an expect step that agrees with the compiled one on
\* selector, selector_strategy, assertion, value and timeout has the same
\* statement whatever its url and description.
C26_FieldRelevanceOfExpect ==
    /\ GotoConsultsUrlAndValue
    /\ FixedStatements
    /\ (pc = "compiled" /\ step.action = "expect")
          => \A u \in OtherUrls, d \in OtherDescriptions :
                StatementFor([step EXCEPT !.url = u, !.description = d])
                   = StatementOf(result.val)

\* a goto step with neither url nor value and with a selector
C26_Witness ==
    /\ pc = "compiled" /\ step.action = "goto"
    /\ ~Truthy(step.url) /\ ~Truthy(step.value)
    /\ Truthy(step.selector)
    /\ step.assertion # None

-----------------------------------------------------------------------------
(* Claims about the steps of compile(), under SpecSave *)

\* every case of the suite of the call is compiled and the text formatted
AllCasesCompiled(call) ==
    /\ Len(call.test_cases_code) = Len(call.test_suite.test_cases)
    /\ \A k \in 1..Len(call.test_cases_code) :
          call.test_cases_code[k] = _compile_test_case(call.test_suite.test_cases[k]).val
    /\ call.file_content # <<>>

\* C27: a compile call writes its artifact once, and only after every case
\* of its suite has been compiled: while cases are still to be compiled or
\* the text to be formatted the file system is as the call found it and
\* neither mkdir nor write_text has been called; a call never calls
\* write_text twice and a call that returns has called it exactly once;
\* the suite the call holds is at every step the suite it was given.
C27_OneWriteAfterAllCases ==
    /\ \A i \in 1..Len(calls) :
          /\ calls[i].test_suite = calls[i].given
          /\ calls[i].writes <= 1
          /\ calls[i].pc \in {"cases", "format"}
                => /\ fs = calls[i].fs0
                   /\ calls[i].mkdirs = 0
                   /\ calls[i].writes = 0
          /\ (fs # calls[i].fs0 \/ calls[i].mkdirs > 0 \/ calls[i].writes > 0)
                => AllCasesCompiled(calls[i])
          /\ calls[i].pc = "return" => calls[i].writes = 1
    /\ \A c \in 1..Len(done) :
          /\ done[c].test_suite = done[c].given
          /\ done[c].writes <= 1
          /\ done[c].ok => done[c].writes = 1
          /\ done[c].fs1 # done[c].fs0 => done[c].writes = 1

\* the second call of a run has compiled its three cases and has written
C27_Witness ==
    /\ Len(done) = 1
    /\ calls # <<>>
    /\ calls[1].pc = "return"
    /\ Len(calls[1].test_cases_code) = 3
    /\ calls[1].writes = 1
    /\ fs # calls[1].fs0

\* the path of the artifact of a finished call
ArtifactOf(entry) == output_path(config, entry.test_suite.suite_id)

\* C28: a compile call that failed while writing the artifact (its
\* write_text raised, at the open or at the write) has left the artifact
\* that was stored for its suite id as it was: the file still holds the
\* whole text it held when the call began.
C28_FailedWriteKeepsOldArtifact ==
    \A c \in 1..Len(done) :
        (/\ done[c].failed \in {"open", "write"}
         /\ ArtifactOf(done[c]) \in DOMAIN done[c].fs0.files)
            => /\ ArtifactOf(done[c]) \in DOMAIN done[c].fs1.files
               /\ done[c].fs1.files[ArtifactOf(done[c])]
                     = done[c].fs0.files[ArtifactOf(done[c])]

-----------------------------------------------------------------------------
(* Claims about the defaults of _compile_api_test, under SpecApi *)

\* the method and the endpoint of the request of an entry, with the
\* defaults GET and /
RequestMethod(test) == IF test.method = None THEN <<"GET">> ELSE upper(test.method[1])
RequestEndpoint(test) == IF test.endpoint = None THEN <<"/">> ELSE test.endpoint[1]

\* the name of the block of an entry
BlockName(test) ==
    IF test.name = None THEN RequestMethod(test) \o <<" ">> \o RequestEndpoint(test)
    ELSE test.name[1]

\* C29: a compile_api_tests call on entries with any subset of their keys
\* missing returns: every entry compiles to a test block, named after the
\* entry or <METHOD> <endpoint>, that sends the method (GET when missing) to
\* the endpoint (/ when missing) and asserts the status (200 when missing);
\* the file holds exactly these blocks, one per entry in input order, and
\* no navigation hook.
C29_PartialEntriesCompile ==
    \A c \in 1..Len(done) :
        /\ done[c].ok
        /\ Len(done[c].test_cases_code) = Len(done[c].api_tests)
        /\ \A k \in 1..Len(done[c].api_tests) :
              LET test == done[c].api_tests[k]
                  block == LinesOf(done[c].test_cases_code[k])
              IN /\ block[1] = <<"  test(", "'">> \o BlockName(test)
                                \o <<"'", ", async ({ request }) => {">>
                 /\ block[4] = <<"    const response = await request.">>
                                \o lower(RequestMethod(test))
                                \o <<"(", "'">> \o RequestEndpoint(test) \o <<"'", ", {">>
                 /\ \E l \in 1..Len(block) :
                       block[l] = <<"    expect(response.status()).toBe(",
                                    ToString(ExpectedCode(test)), ");">>
                 /\ block[Len(block)] = <<"  });">>
        /\ LET lines == LinesOf(done[c].file_content)
           IN /\ Len(BlockHeads(lines)) = Len(done[c].api_tests)
              /\ \A k \in 1..Len(done[c].api_tests) :
                    BlockLines(lines, k) = LinesOf(done[c].test_cases_code[k])
              /\ \A l \in 1..Len(lines) :
                    /\ ~Contains(lines[l], "  test.beforeEach(")
                    /\ ~Contains(lines[l], "page.goto(")

\* three entries, the first with neither endpoint nor name nor description
C29_Witness ==
    /\ done # <<>>
    /\ Len(done[1].api_tests) = MaxCases + 1
    /\ done[1].api_tests[1] = SecondEntry
    /\ done[1].api_tests[2] = FirstEntry

\* the line declares the variable of the response body
DeclaresBody(line) == StartsWith(line, "    const body = await response.json();")

\* C30: the block of every entry declares the variable of the response
\* body at most once, whatever the expected body, an object of two or more
\* keys included.
C30_BodyDeclaredAtMostOnce ==
    \A c \in 1..Len(done) :
        \A k \in 1..Len(done[c].test_cases_code) :
            Len(SelectSeq(LinesOf(done[c].test_cases_code[k]), DeclaresBody)) <= 1

====
